---- MODULE Spec2Model ----
(***************************************************************************)
(* MediConnect message bus: the broker (backend/bus/bus_server.py) and the *)
(* peer runtime (backend/bus/bus_client.py).                               *)
(*                                                                         *)
(* Time is counted in heartbeat intervals (one unit = heartbeat_interval   *)
(* seconds).  Python dicts are partial functions; a missing key is a       *)
(* point outside DOMAIN.  Every envelope is a record with the same fields, *)
(* an absent JSON field holds Nil.                                         *)
(***************************************************************************)
EXTENDS Integers, Sequences, FiniteSets, TLC

\* ------------------------------------------------------------------ bounds
\* client sockets the broker may hold (a socket object no structure refers
\* to any more may be accepted again)
MaxSock == 2
\* the clock stops advancing at MaxTime
MaxTime == 4
\* no broker queue grows beyond MaxQueue envelopes
MaxQueue == 1
\* message_count saturates the exploration at MaxCount
MaxCount == 1
\* _cleanup_loop: depth above which a queue is compacted (1000 in the source)
QueueHighWater == 1
\* _cleanup_loop: envelopes removed from an oversized queue (500 in the source)
QueueDropCount == 1
\* _send_pending_messages: max_messages_per_cycle (100 in the source)
MaxPerCycle == 2

\* ------------------------------------------------------- program constants
heartbeat_interval == 1

Socks == 1 .. MaxSock
Names == {"a", "b"}
Nil == "nil"

\* -------------------------------------------------------------- envelopes
Envelope(action, sender, destination, service_name, data, request_id) ==
    [action |-> action, sender |-> sender, destination |-> destination,
     service_name |-> service_name, data |-> data, request_id |-> request_id,
     hop |-> 0, registered_services |-> {}, count |-> 0, error |-> Nil]

\* what a connection may send to the broker
RegTop(n) == Envelope("register", n, Nil, n, Nil, Nil)
\* the register envelope of BusClient._register_service: the name is in data
RegData(n) == Envelope("register", n, Nil, Nil, n, Nil)
PingMsg(n) == Envelope("ping", n, Nil, Nil, Nil, Nil)
\* BusClient._handle_heartbeat: the heartbeat carries no sender, so the pong
\* has no destination field
PongMsg(n) == Envelope("pong", n, Nil, Nil, Nil, Nil)
DiscoverMsg(n) == Envelope("discover", n, Nil, Nil, Nil, Nil)
BroadcastReq(n) == Envelope("broadcast", n, Nil, Nil, "x1", Nil)
AppMsg(n, d, x, r) == Envelope("echo", n, d, Nil, x, r)
BogusMsg(n) == Envelope("bogus", n, Nil, Nil, Nil, Nil)

InFrames ==
    {RegTop(n) : n \in Names} \cup {RegData("a")}
    \cup {PingMsg("a"), PongMsg("a"), DiscoverMsg("a"), BroadcastReq("a"), BogusMsg("a")}
    \cup {AppMsg(n, d, "x1", "r1") : n \in Names, d \in {"b", "nobody"}}

\* what the broker writes
WelcomeMsg == Envelope("welcome", Nil, Nil, Nil, Nil, Nil)
RegisteredMsg(n, all) ==
    [Envelope("registered", Nil, Nil, n, Nil, Nil) EXCEPT !.registered_services = all]
ServiceConnected(n) == Envelope("service_connected", Nil, Nil, n, Nil, Nil)
ServiceDisconnected(n) == Envelope("service_disconnected", Nil, Nil, n, Nil, Nil)
SuccessMsg == Envelope("success", Nil, Nil, Nil, Nil, Nil)
ErrorMsg(text) == [Envelope("error", Nil, Nil, Nil, Nil, Nil) EXCEPT !.error = text]
BrokerPong(k) == [Envelope("pong", Nil, Nil, Nil, Nil, Nil) EXCEPT !.count = k]
DiscoverResponse(all) ==
    [Envelope("discover_response", Nil, Nil, Nil, Nil, Nil)
        EXCEPT !.registered_services = all, !.count = Cardinality(all)]
BroadcastMsg(sender, data) == Envelope("broadcast", sender, Nil, Nil, data, Nil)
BroadcastSent(k) == [Envelope("broadcast_sent", Nil, Nil, Nil, Nil, Nil) EXCEPT !.count = k]
RoutedConfirmation(d, k) ==
    [Envelope("routed", Nil, d, Nil, Nil, Nil) EXCEPT !.count = k]
HeartbeatMsg == Envelope("heartbeat", Nil, Nil, Nil, Nil, Nil)

\* ------------------------------------------------------------ broker state
VARIABLES
    services,           \* BusServer.services: name -> ServiceInfo
    socket_to_service,  \* BusServer.socket_to_service: socket -> name
    message_queues,     \* BusServer.message_queues: socket -> queue
    inputs,             \* BusServer.inputs (client sockets)
    outputs,            \* BusServer.outputs
    open,               \* client sockets accepted and not yet closed
    now,                \* datetime.now()
    last_frame,         \* socket -> time the broker last read a frame from it
    stream,             \* one connection at the byte level: written, in flight, read
    drain,              \* _send_pending_messages: position of the event loop in it
    last_event,         \* the event the last step handled
    hb_pc,              \* _heartbeat_loop position
    hb_now,             \* _heartbeat_loop: now
    hb_inactive,        \* _heartbeat_loop: inactive_services still to clean
    reg_written,        \* open sockets a `registered` envelope was written on
    \* ---- the peer runtimes, one BusClient per name
    connection_state,   \* BusClient.connection_state
    running,            \* BusClient.running
    psock,              \* BusClient.socket: NoSock, or the connection it holds
    receiver_ready,     \* BusClient.receiver_ready
    outgoing_queue,     \* BusClient.outgoing_queue
    incoming_queue,     \* BusClient.incoming_queue
    response_queues,    \* BusClient.response_queues: request_id -> queue
    net_out,            \* frames a peer wrote that the broker has not read yet
    net_in,             \* frames written to a peer that it has not read yet
    handled,            \* the data each callback invocation received, in order
    call,               \* the host thread inside send_message
    conn,               \* the host thread inside connect
    sends,              \* send_message calls that enqueued an envelope
    answered            \* request ids whose response was dispatched during the call

bvars == <<services, socket_to_service, message_queues, inputs, outputs, open,
           now, last_event, hb_pc, hb_now, hb_inactive, reg_written>>

pvars == <<connection_state, running, psock, receiver_ready, outgoing_queue,
           incoming_queue, response_queues, net_out, net_in, handled, call,
           conn, sends, answered>>

vars == <<bvars, last_frame, stream, drain, pvars>>

\* a connection on which nothing was written, nothing is in flight and
\* nothing was read; reaped tells whether _cleanup_socket closed it, after a
\* send ("send") or after a read ("recv"); reader tells whose reader is at
\* the other end, and header, body and returned are the header value the last
\* call of that reader decoded, the number of payload bytes it took from the
\* socket and what it returned
NoStream == [sent |-> << >>, wire |-> << >>, arrived |-> << >>, read |-> << >>,
             reaped |-> "no", reader |-> "broker", header |-> 0, body |-> 0,
             returned |-> "nothing"]

\* the event loop outside _send_pending_messages
NoDrain == [pc |-> "idle", sock |-> 0]

\* dict helpers
Drop(f, k) == [x \in DOMAIN f \ {k} |-> f[x]]
Put(f, k, v) == [x \in DOMAIN f \cup {k} |-> IF x = k THEN v ELSE f[x]]

\* the broker's shared structures as one value; sent collects the frames a
\* handler writes on sockets, in order
B == [services |-> services, socket_to_service |-> socket_to_service,
      message_queues |-> message_queues, inputs |-> inputs,
      outputs |-> outputs, open |-> open, sent |-> <<>>]

Commit(r) ==
    /\ services' = r.services
    /\ socket_to_service' = r.socket_to_service
    /\ message_queues' = r.message_queues
    /\ inputs' = r.inputs
    /\ outputs' = r.outputs
    /\ open' = r.open
    /\ reg_written' =
          (reg_written \cup {r.sent[i].sock : i \in {j \in 1 .. Len(r.sent) :
                                                    r.sent[j].msg.action = "registered"}})
          \cap r.open

RECURSIVE Copies(_, _)
Copies(m, k) == IF k = 0 THEN <<>> ELSE <<m>> \o Copies(m, k - 1)

\* names bound to a socket in services
NamesOf(r, sock) == {n \in DOMAIN r.services : r.services[n].socket = sock}

\* BusServer._broadcast: one put per service entry whose socket is not
\* excluded; an entry whose socket has no queue raises KeyError, which is
\* caught per entry.  Returns the new state and the recipients count.
BroadcastTargets(r, exclude) ==
    {n \in DOMAIN r.services :
        /\ r.services[n].socket \notin exclude
        /\ r.services[n].socket \in DOMAIN r.message_queues}

Broadcast(r, msg, exclude) ==
    LET hit == {r.services[n].socket : n \in BroadcastTargets(r, exclude)}
    IN [r EXCEPT
          !.message_queues =
              [s \in DOMAIN r.message_queues |->
                  IF s \in hit
                  THEN r.message_queues[s] \o
                       Copies(msg, Cardinality(NamesOf(r, s) \cap BroadcastTargets(r, exclude)))
                  ELSE r.message_queues[s]],
          !.outputs = r.outputs \cup hit]

\* BusServer._cleanup_socket
CleanupSocket(r, sock) ==
    LET named == sock \in DOMAIN r.socket_to_service
        name == IF named THEN r.socket_to_service[sock] ELSE Nil
        r1 == [r EXCEPT !.socket_to_service = Drop(r.socket_to_service, sock)]
        r2 == IF named /\ name \in DOMAIN r1.services
              THEN Broadcast([r1 EXCEPT !.services = Drop(r1.services, name)],
                             ServiceDisconnected(name), {sock})
              ELSE r1
    IN [r2 EXCEPT !.inputs = r2.inputs \ {sock},
                  !.outputs = r2.outputs \ {sock},
                  !.message_queues = Drop(r2.message_queues, sock),
                  !.open = r2.open \ {sock}]

\* BusServer._send_to_socket: a failed write (ok = FALSE, or a socket already
\* closed) cleans the socket up
SendToSocket(r, sock, msg, ok) ==
    IF ok /\ sock \in r.open
    THEN [r EXCEPT !.sent = Append(r.sent, [sock |-> sock, msg |-> msg])]
    ELSE CleanupSocket(r, sock)

\* BusServer._send_error
SendError(r, sock, text, ok) == SendToSocket(r, sock, ErrorMsg(text), ok)

\* BusServer._send_success
SendSuccess(r, sock, ok) == SendToSocket(r, sock, SuccessMsg, ok)

ServiceInfo(sock, t) ==
    [socket |-> sock, last_seen |-> t, message_count |-> 0]

\* _register_service with the prior connection left alone
RegisterServiceKeepOld(r, sock, m, ok, t) ==
    LET name == m.service_name IN
    IF name = Nil
    THEN SendError(r, sock, "name_required", ok)
    ELSE LET r2 == [r EXCEPT
                      !.services = Put(r.services, name, ServiceInfo(sock, t)),
                      !.socket_to_service = Put(r.socket_to_service, sock, name)]
             r3 == SendToSocket(r2, sock, RegisteredMsg(name, DOMAIN r2.services), ok)
         IN Broadcast(r3, ServiceConnected(name), {sock})

\* _register_service with the `registered` reply put on the outbound queue
RegisterServiceQueued(r, sock, m, ok, t) ==
    LET name == m.service_name IN
    IF name = Nil
    THEN SendError(r, sock, "name_required", ok)
    ELSE IF name \in DOMAIN r.services /\ r.services[name].socket = sock
    THEN SendSuccess([r EXCEPT !.services[name].last_seen = t], sock, ok)
    ELSE LET r1 == IF name \in DOMAIN r.services
                   THEN CleanupSocket(r, r.services[name].socket)
                   ELSE r
             r2 == [r1 EXCEPT
                      !.services = Put(r1.services, name, ServiceInfo(sock, t)),
                      !.socket_to_service = Put(r1.socket_to_service, sock, name)]
             r3 == IF sock \in DOMAIN r2.message_queues
                   THEN [r2 EXCEPT !.message_queues[sock] =
                                      Append(@, RegisteredMsg(name, DOMAIN r2.services)),
                                   !.outputs = @ \cup {sock}]
                   ELSE r2
         IN Broadcast(r3, ServiceConnected(name), {sock})

\* BusServer._register_service
RegisterService(r, sock, m, ok, t) ==
    LET name == m.service_name IN
    IF name = Nil
    THEN SendError(r, sock, "name_required", ok)
    ELSE IF name \in DOMAIN r.services /\ r.services[name].socket = sock
    THEN SendSuccess([r EXCEPT !.services[name].last_seen = t], sock, ok)
    ELSE LET r1 == IF name \in DOMAIN r.services
                   THEN CleanupSocket(r, r.services[name].socket)
                   ELSE r
             r2 == [r1 EXCEPT
                      !.services = Put(r1.services, name, ServiceInfo(sock, t)),
                      !.socket_to_service = Put(r1.socket_to_service, sock, name)]
             r3 == SendToSocket(r2, sock, RegisteredMsg(name, DOMAIN r2.services), ok)
         IN Broadcast(r3, ServiceConnected(name), {sock})

\* BusServer._route_message
RouteMessageAt(r, sock, m, ok, t) ==
    LET dest == m.destination
        sender == m.sender
    IN
    IF dest \notin DOMAIN r.services
    THEN SendError(r, sock, "dest_not_found", ok)
    ELSE LET dest_sock == r.services[dest].socket
             r1 == [r EXCEPT !.services[dest].last_seen = t,
                             !.services[dest].message_count = @ + 1]
             r2 == IF sender \in DOMAIN r1.services
                   THEN [r1 EXCEPT !.services[sender].message_count = @ + 1,
                                   !.services[sender].last_seen = t]
                   ELSE r1
         IN IF dest_sock \notin DOMAIN r2.message_queues
            THEN SendError(r2, sock, "route_failed", ok)
            ELSE LET q == Append(r2.message_queues[dest_sock],
                                 [m EXCEPT !.hop = m.hop + 1])
                     r3 == [r2 EXCEPT !.message_queues[dest_sock] = q,
                                      !.outputs = r2.outputs \cup {dest_sock}]
                 IN SendToSocket(r3, sock, RoutedConfirmation(dest, Len(q)), ok)

\* _route_message stamping last_seen with the start of the epoch
RouteMessageEpoch(r, sock, m, ok, t) == RouteMessageAt(r, sock, m, ok, 0)

RouteMessage(r, sock, m, ok, t) == RouteMessageAt(r, sock, m, ok, t)

\* BusServer._handle_ping
HandlePing(r, sock, m, ok, t) ==
    LET r1 == SendToSocket(r, sock, BrokerPong(Cardinality(DOMAIN r.services)), ok)
    IN IF /\ sock \in DOMAIN r1.socket_to_service
          /\ r1.socket_to_service[sock] \in DOMAIN r1.services
       THEN [r1 EXCEPT !.services[r1.socket_to_service[sock]].last_seen = t]
       ELSE r1

\* BusServer._handle_discover
HandleDiscover(r, sock, m, ok) ==
    SendToSocket(r, sock, DiscoverResponse(DOMAIN r.services), ok)

\* BusServer._handle_broadcast
HandleBroadcast(r, sock, m, ok) ==
    LET recipients == Cardinality(BroadcastTargets(r, {sock}))
        r1 == Broadcast(r, BroadcastMsg(m.sender, m.data), {sock})
    IN SendToSocket(r1, sock, BroadcastSent(recipients), ok)

\* BusServer._process_message
ProcessMessage(r, sock, m, ok, t) ==
    IF m.action = "register" THEN RegisterService(r, sock, m, ok, t)
    ELSE IF m.action = "ping" THEN HandlePing(r, sock, m, ok, t)
    ELSE IF m.action = "discover" THEN HandleDiscover(r, sock, m, ok)
    ELSE IF m.action = "broadcast" THEN HandleBroadcast(r, sock, m, ok)
    ELSE IF m.destination # Nil THEN RouteMessage(r, sock, m, ok, t)
    ELSE SendError(r, sock, "unrecognised", ok)

\* _send_pending_messages taking the newest envelope first
SendPendingMessagesNewestFirst(r, sock, ok) ==
    IF sock \notin DOMAIN r.message_queues THEN r
    ELSE IF ~ok THEN CleanupSocket(r, sock)
    ELSE LET q == r.message_queues[sock]
             k == IF Len(q) < MaxPerCycle THEN Len(q) ELSE MaxPerCycle
             rest == SubSeq(q, 1, Len(q) - k)
         IN [r EXCEPT
               !.sent = r.sent \o [i \in 1 .. k |->
                                      [sock |-> sock, msg |-> q[Len(q) + 1 - i]]],
               !.message_queues[sock] = rest,
               !.outputs = IF rest = <<>> THEN r.outputs \ {sock} ELSE r.outputs]

\* BusServer._send_pending_messages
SendPendingMessages(r, sock, ok) ==
    IF sock \notin DOMAIN r.message_queues THEN r
    ELSE IF ~ok THEN CleanupSocket(r, sock)
    ELSE LET q == r.message_queues[sock]
             k == IF Len(q) < MaxPerCycle THEN Len(q) ELSE MaxPerCycle
             rest == SubSeq(q, k + 1, Len(q))
         IN [r EXCEPT
               !.sent = r.sent \o [i \in 1 .. k |-> [sock |-> sock, msg |-> q[i]]],
               !.message_queues[sock] = rest,
               !.outputs = IF rest = <<>> THEN r.outputs \ {sock} ELSE r.outputs]

\* the exploration bounds, on the state a step leads to
Bounded(r) ==
    /\ \A s \in DOMAIN r.message_queues : Len(r.message_queues[s]) <= MaxQueue
    /\ \A n \in DOMAIN r.services : r.services[n].message_count <= MaxCount

\* a socket object nothing refers to any more
Unreferenced(sock) ==
    /\ sock \notin open
    /\ sock \notin inputs \cup outputs
    /\ sock \notin DOMAIN message_queues
    /\ sock \notin DOMAIN socket_to_service
    /\ \A n \in DOMAIN services : services[n].socket # sock

\* what the last step did to the registry, for the record: a register that
\* took a name over from another socket ("supersede"), a frame that refreshed
\* the last_seen of an entry it left bound ("touch"), or neither
NoEvent == [kind |-> "none", sock |-> 0, name |-> Nil, old |-> 0]

Supersedes(r, sock, m) ==
    /\ m.action = "register"
    /\ m.service_name \in DOMAIN r.services
    /\ r.services[m.service_name].socket # sock

Touches(r, r2) ==
    \E n \in DOMAIN r.services \cap DOMAIN r2.services :
        /\ r2.services[n].socket = r.services[n].socket
        /\ r2.services[n].last_seen > r.services[n].last_seen

EventOf(r, r2, sock, m) ==
    IF Supersedes(r, sock, m)
    THEN [kind |-> "supersede", sock |-> sock, name |-> m.service_name,
          old |-> r.services[m.service_name].socket]
    ELSE IF Touches(r, r2)
    THEN [kind |-> "touch", sock |-> sock, name |-> Nil, old |-> 0]
    ELSE NoEvent

hbUnchanged == UNCHANGED <<hb_pc, hb_now, hb_inactive>>

\* ------------------------------------------------------- broker operations
\* BusServer._accept_new_connection
AcceptNewConnection(sock, ok) ==
    /\ Unreferenced(sock)
    /\ \A s \in Socks : Unreferenced(s) => sock <= s
    /\ LET r1 == [B EXCEPT !.inputs = inputs \cup {sock},
                           !.message_queues = Put(message_queues, sock, <<>>),
                           !.open = open \cup {sock}]
       IN Commit(SendToSocket(r1, sock, WelcomeMsg, ok))
    /\ last_event' = NoEvent
    /\ UNCHANGED now
    /\ hbUnchanged

\* BusServer._handle_client_message, a frame was read
HandleClientMessage(sock, m, ok) ==
    /\ sock \in inputs
    /\ LET r == ProcessMessage(B, sock, m, ok, now)
       IN Bounded(r) /\ Commit(r) /\ last_event' = EventOf(B, r, sock, m)
    /\ UNCHANGED now
    /\ hbUnchanged

\* BusServer._handle_client_message, the read returned nothing (the peer
\* closed, the frame was oversized or not JSON, or the read failed), and
\* BusServer._handle_exceptional_socket
HandleClientClosed(sock) ==
    /\ sock \in inputs
    /\ LET r == CleanupSocket(B, sock)
       IN Bounded(r) /\ Commit(r)
    /\ last_event' = NoEvent
    /\ UNCHANGED now
    /\ hbUnchanged

\* BusServer._main_loop, a writable socket
HandleWritable(sock, ok) ==
    /\ sock \in outputs
    /\ Commit(SendPendingMessages(B, sock, ok))
    /\ last_event' = NoEvent
    /\ UNCHANGED now
    /\ hbUnchanged

\* BusServer._heartbeat_loop: after the sleep, collect the inactive services
InactiveServices(r, t) ==
    {n \in DOMAIN r.services : t - r.services[n].last_seen > heartbeat_interval * 3}

HeartbeatScan ==
    /\ hb_pc = "sleep"
    /\ now >= hb_now + heartbeat_interval
    /\ hb_now' = now
    /\ hb_inactive' = InactiveServices(B, now)
    /\ hb_pc' = "reap"
    /\ last_event' = NoEvent
    /\ UNCHANGED <<services, socket_to_service, message_queues, inputs, outputs,
                   open, now, reg_written>>

\* BusServer._heartbeat_loop: clean one inactive service
HeartbeatReap(n) ==
    /\ hb_pc = "reap"
    /\ n \in hb_inactive
    /\ LET r == IF n \in DOMAIN services
                THEN CleanupSocket(B, services[n].socket)
                ELSE B
       IN Bounded(r) /\ Commit(r)
    /\ hb_inactive' = hb_inactive \ {n}
    /\ last_event' = NoEvent
    /\ UNCHANGED <<now, hb_pc, hb_now>>

\* BusServer._heartbeat_loop: enqueue the heartbeat for every service
HeartbeatSend ==
    /\ hb_pc = "reap"
    /\ hb_inactive = {}
    /\ LET r == Broadcast(B, HeartbeatMsg, {})
       IN Bounded(r) /\ Commit(r)
    /\ hb_pc' = "sleep"
    /\ last_event' = NoEvent
    /\ UNCHANGED <<now, hb_now, hb_inactive>>

\* BusServer._cleanup_loop: compact the oversized queues
Compact(q) ==
    IF Len(q) > QueueHighWater
    THEN SubSeq(q, (IF QueueDropCount < Len(q) THEN QueueDropCount ELSE Len(q)) + 1, Len(q))
    ELSE q

CleanupLoop ==
    /\ \E s \in DOMAIN message_queues : Len(message_queues[s]) > QueueHighWater
    /\ message_queues' = [s \in DOMAIN message_queues |-> Compact(message_queues[s])]
    /\ last_event' = NoEvent
    /\ UNCHANGED <<services, socket_to_service, inputs, outputs, open, now,
                   reg_written>>
    /\ hbUnchanged

\* the clock
Tick ==
    /\ now < MaxTime
    /\ now' = now + 1
    /\ last_event' = NoEvent
    /\ UNCHANGED <<services, socket_to_service, message_queues, inputs, outputs,
                   open, reg_written>>
    /\ hbUnchanged

\* BusServer.__init__ and start
BrokerInit ==
    /\ services = << >>
    /\ socket_to_service = << >>
    /\ message_queues = << >>
    /\ inputs = {}
    /\ outputs = {}
    /\ open = {}
    /\ reg_written = {}
    /\ now = 0
    /\ last_event = NoEvent
    /\ hb_pc = "sleep"
    /\ hb_now = 0
    /\ hb_inactive = {}


\* ======================================================= the peer runtime
\* One BusClient per name.  A connection is named by the socket the broker
\* holds for it; NoSock is BusClient.socket = None.
NoSock == 0
\* send_message calls a host makes
MaxSends == 2
\* connect calls a host makes
MaxConnects == 2
\* BusClient.max_reconnect_attempts, the reconnect budget (10 in the source)
max_reconnect_attempts == 2
\* connect() calls one reconnect procedure makes
MaxReconnects == 3

Peers == Names

\* the peers whose host sends, reconnects and disconnects
Callers == {"a"}

\* the callbacks the hosts registered with register_callback: b serves echo,
\* notify, fail and relay, a serves echo
callbacks == [p \in Peers |-> IF p = "b" THEN {"echo", "notify", "fail", "relay"}
                              ELSE {"echo"}]

\* the dict a callback gets for an envelope without data
EmptyDict == "{}"

\* callback(message.data or {})
CallbackArg(data) == IF data = Nil THEN EmptyDict ELSE data

\* the echo callback returns the data it was given
EchoCallback(data) == data

\* how a callback ends: it returns a value (Nil is None) or raises
Returned(value) == [kind |-> "return", value |-> value]
Raised(e) == [kind |-> "raise", value |-> e]

\* a Callable[[Dict], Optional[Dict]] per action: echo returns a value,
\* notify returns None, fail raises
Callback(action, data) ==
    CASE action = "echo" -> Returned(EchoCallback(data))
      [] action = "notify" -> Returned(Nil)
      [] OTHER -> Raised("boom")

\* {'error': str(e), 'original_action': action}
ErrorData(e, action) == "error=" \o e \o ",original_action=" \o action

\* the request ids (uuid4) and the payloads of a host's calls, by call number
RequestIds == <<"r1", "r2", "r3", "r4", "r5", "r6", "r7", "r8">>
Payloads == <<"x1", "x2", "x3", "x4", "x5", "x6", "x7", "x8">>
RequestId(i) == RequestIds[i]
Payload(i) == Payloads[i]
PayloadIndex(x) == CHOOSE i \in 1 .. Len(Payloads) : Payloads[i] = x

\* None as a value of the envelope type
NoResult == Envelope(Nil, Nil, Nil, Nil, Nil, Nil)

\* Message.from_dict keeps action, sender, destination, data and request_id
\* and nothing else of the frame
FromDict(d) == Envelope(d.action, d.sender, d.destination, Nil, d.data, d.request_id)

\* Message.to_dict writes the same five fields (the absent ones are left out)
ToDict(m) == Envelope(m.action, m.sender, m.destination, Nil, m.data, m.request_id)

\* BusClient._is_connected
IsConnected(p) == connection_state[p] = "registered" /\ psock[p] # NoSock

IdleCall == [pc |-> "idle", request_id |-> Nil, wait |-> FALSE, result |-> NoResult,
             seen |-> Nil, by |-> "host"]
\* the connect record of a peer: where its connect() or its reconnect
\* procedure is (pc), what the last connect() of the host returned (result),
\* BusClient.reconnect_attempts, and what the runtime holds: the sockets it
\* opened and did not close, the sets of threads it started and did not stop.
\* tries counts the connect() calls of the reconnect procedure, exhausted
\* says that it gave up and fired on_disconnect, by_task that it runs on a
\* thread of the client, joins_self that this thread is one that
\* disconnect() joins, second what the connect() of a second thread returned,
\* fired the calls of on_disconnect since reconnect_attempts last changed.
IdleConn == [pc |-> "idle", result |-> "none", replied |-> FALSE, attempts |-> 0,
             reconnect_attempts |-> 0, nested |-> FALSE, pending |-> 0,
             disconnected |-> FALSE, tries |-> 0, exhausted |-> FALSE,
             by_task |-> FALSE, joins_self |-> FALSE, second |-> "none",
             sockets |-> {}, tasks |-> 0, fired |-> 0]

\* BusClient._try_reconnect and what follows its return.  c is the connect
\* record of a peer: c.nested says that the running connect() was called by
\* _try_reconnect, c.pending counts the connect() calls of _try_reconnect
\* that are in their except clause.  _try_reconnect gives up when the budget
\* is spent, else counts the attempt and sleeps; when it returns, the
\* connect() that called _handle_connection_error returns False: to the
\* host, or to the _try_reconnect that called it, which tries again.
RECURSIVE TryReconnect(_), TryReconnectReturns(_)
TryReconnect(c) ==
    IF c.reconnect_attempts >= max_reconnect_attempts
    THEN TryReconnectReturns([c EXCEPT !.exhausted = TRUE, !.fired = @ + 1])
    ELSE [c EXCEPT !.reconnect_attempts = @ + 1, !.pc = "backoff", !.fired = 0]
TryReconnectReturns(c) ==
    IF c.pending > 0
    THEN TryReconnect([c EXCEPT !.pending = @ - 1])
    ELSE [c EXCEPT !.pc = "idle", !.result = IF c.by_task THEN @ ELSE "fail",
                   !.nested = FALSE, !.by_task = FALSE, !.joins_self = FALSE]

\* disconnect() ran to its end: the socket is closed, the threads stop
Closed(c, sock) == [c EXCEPT !.sockets = @ \ {sock}, !.tasks = 0]

\* connect() returns False after its disconnect(): to the host, or to the
\* _try_reconnect that called it, which tries again
ConnectFails(c) ==
    IF c.nested THEN TryReconnect(c) ELSE [c EXCEPT !.pc = "idle", !.result = "fail"]

\* connect() returns True: to the host, or to the _try_reconnect that called
\* it, which returns
ConnectSucceeds(c) ==
    IF c.nested THEN TryReconnectReturns(c) ELSE [c EXCEPT !.pc = "idle", !.result = "ok"]

\* BusClient.__init__
PeersInit ==
    /\ connection_state = [p \in Peers |-> "disconnected"]
    /\ running = [p \in Peers |-> FALSE]
    /\ psock = [p \in Peers |-> NoSock]
    /\ receiver_ready = [p \in Peers |-> FALSE]
    /\ outgoing_queue = [p \in Peers |-> << >>]
    /\ incoming_queue = [p \in Peers |-> << >>]
    /\ response_queues = [p \in Peers |-> << >>]
    /\ net_out = [p \in Peers |-> << >>]
    /\ net_in = [p \in Peers |-> << >>]
    /\ handled = [p \in Peers |-> << >>]
    /\ call = [p \in Peers |-> IdleCall]
    /\ conn = [p \in Peers |-> IdleConn]
    /\ sends = [p \in Peers |-> 0]
    /\ answered = [p \in Peers |-> {}]

Init ==
    BrokerInit /\ PeersInit /\ last_frame = << >> /\ stream = NoStream /\ drain = NoDrain

\* a step of the broker alone, and a step of the peers alone
Idle == UNCHANGED <<last_frame, stream, drain, pvars>>
BrokerIdle == UNCHANGED <<bvars, last_frame, stream, drain>>

\* ------------------------------------------------------------- connect()
\* BusClient.connect, up to the socket: an already Connected client returns
\* True, any other one becomes Connecting
ConnectBegin(p) ==
    /\ conn[p].pc = "idle"
    /\ call[p].pc \in {"idle", "done"}
    /\ conn[p].attempts < MaxConnects
    /\ IF connection_state[p] = "connected"
       THEN /\ conn' = [conn EXCEPT ![p].result = "ok", ![p].attempts = @ + 1,
                                    ![p].disconnected = FALSE]
            /\ UNCHANGED connection_state
       ELSE /\ connection_state' = [connection_state EXCEPT ![p] = "connecting"]
            /\ conn' = [conn EXCEPT ![p] = [IdleConn EXCEPT
                                               !.pc = "tcp",
                                               !.attempts = conn[p].attempts + 1,
                                               !.reconnect_attempts =
                                                   conn[p].reconnect_attempts,
                                               !.sockets = conn[p].sockets,
                                               !.tasks = conn[p].tasks]]
    /\ UNCHANGED <<running, psock, receiver_ready, outgoing_queue, incoming_queue,
                   response_queues, net_out, net_in, handled, call, sends, answered>>

\* BusClient.connect: the socket connects (the broker accepts and writes its
\* welcome) and the client is Connected
ConnectTcp(p, sock) ==
    /\ conn[p].pc = "tcp"
    /\ \A q \in Peers : psock[q] # sock
    /\ psock' = [psock EXCEPT ![p] = sock]
    /\ net_in' = [net_in EXCEPT ![p] = <<WelcomeMsg>>]
    /\ net_out' = [net_out EXCEPT ![p] = << >>]
    /\ connection_state' = [connection_state EXCEPT ![p] = "connected"]
    /\ conn' = [conn EXCEPT ![p].pc = "start", ![p].reconnect_attempts = 0,
                            ![p].sockets = @ \cup {sock}, ![p].fired = 0]
    /\ UNCHANGED <<running, receiver_ready, outgoing_queue, incoming_queue,
                   response_queues, handled, call, sends, answered>>

\* BusClient.connect: socket.connect raises (refused, timeout);
\* _handle_connection_error makes the client Error and calls _try_reconnect
ConnectRefused(p) ==
    /\ conn[p].pc = "tcp"
    /\ connection_state' = [connection_state EXCEPT ![p] = "error"]
    /\ conn' = [conn EXCEPT ![p] =
                   TryReconnect([@ EXCEPT !.pending =
                                    IF conn[p].nested THEN @ + 1 ELSE @])]
    /\ UNCHANGED <<running, psock, receiver_ready, outgoing_queue, incoming_queue,
                   response_queues, net_out, net_in, handled, call, sends, answered>>

\* BusClient._try_reconnect after its sleep: disconnect(), then connect().
\* disconnect() does nothing on a client that is not running.  On a running
\* client, called on the receiver or sender thread that found the error, it
\* sets running and the state and then joins its own thread: Thread.join
\* raises, the socket is not closed and the queues are not emptied,
\* _try_reconnect catches the exception and calls itself.
Reconnect(p) ==
    /\ conn[p].pc = "backoff"
    /\ conn[p].tries < MaxReconnects
    /\ IF running[p] /\ conn[p].joins_self
       THEN /\ running' = [running EXCEPT ![p] = FALSE]
            /\ connection_state' = [connection_state EXCEPT ![p] = "disconnected"]
            /\ conn' = [conn EXCEPT ![p] = TryReconnect(@)]
            /\ UNCHANGED <<psock, outgoing_queue, incoming_queue, response_queues,
                           net_in>>
       ELSE /\ IF running[p]
               THEN /\ running' = [running EXCEPT ![p] = FALSE]
                    /\ psock' = [psock EXCEPT ![p] = NoSock]
                    /\ outgoing_queue' = [outgoing_queue EXCEPT ![p] = << >>]
                    /\ incoming_queue' = [incoming_queue EXCEPT ![p] = << >>]
                    /\ response_queues' = [response_queues EXCEPT ![p] = << >>]
                    /\ net_in' = [net_in EXCEPT ![p] = << >>]
               ELSE UNCHANGED <<running, psock, outgoing_queue, incoming_queue,
                                response_queues, net_in>>
            /\ connection_state' = [connection_state EXCEPT ![p] = "connecting"]
            /\ conn' = [conn EXCEPT ![p] =
                           [(IF running[p] THEN Closed(@, psock[p]) ELSE @)
                               EXCEPT !.pc = "tcp", !.nested = TRUE,
                                      !.tries = @ + 1]]
    /\ UNCHANGED <<receiver_ready, net_out, handled, call, sends, answered>>

\* BusClient._receiver_loop or _sender_loop: the socket raises
\* ConnectionError (the broker closed or reset the connection);
\* _handle_connection_error makes the client Error and calls
\* _try_reconnect on that thread
ConnectionLost(p) ==
    /\ running[p]
    /\ IsConnected(p)
    /\ conn[p].pc = "idle"
    /\ connection_state' = [connection_state EXCEPT ![p] = "error"]
    /\ conn' = [conn EXCEPT ![p] =
                   TryReconnect([@ EXCEPT !.by_task = TRUE, !.joins_self = TRUE,
                                          !.tries = 0, !.exhausted = FALSE,
                                          !.fired = 0])]
    /\ UNCHANGED <<running, psock, receiver_ready, outgoing_queue, incoming_queue,
                   response_queues, net_out, net_in, handled, call, sends, answered>>

\* BusClient.connect called by a second thread of the host while the first
\* one is inside connect() with the client Connected: it returns True
ConnectWhileConnected(p) ==
    /\ conn[p].pc \in {"start", "wait_ready", "register", "wait_registered"}
    /\ connection_state[p] = "connected"
    /\ conn[p].second = "none"
    /\ conn' = [conn EXCEPT ![p].second = "ok"]
    /\ UNCHANGED <<connection_state, running, psock, receiver_ready, outgoing_queue,
                   incoming_queue, response_queues, net_out, net_in, handled, call,
                   sends, answered>>

\* BusClient._start_threads
StartThreads(p) ==
    /\ conn[p].pc = "start"
    /\ running' = [running EXCEPT ![p] = TRUE]
    /\ receiver_ready' = [receiver_ready EXCEPT ![p] = FALSE]
    /\ conn' = [conn EXCEPT ![p].pc = "wait_ready", ![p].tasks = @ + 1,
                            ![p].joins_self = FALSE]
    /\ UNCHANGED <<connection_state, psock, outgoing_queue, incoming_queue,
                   response_queues, net_out, net_in, handled, call, sends, answered>>

\* BusClient._receiver_loop, its first statement
ReceiverStart(p) ==
    /\ running[p]
    /\ ~receiver_ready[p]
    /\ receiver_ready' = [receiver_ready EXCEPT ![p] = TRUE]
    /\ UNCHANGED <<connection_state, running, psock, outgoing_queue, incoming_queue,
                   response_queues, net_out, net_in, handled, call, conn, sends,
                   answered>>

\* a connect() that goes on to register without the readiness signal
WaitReadyUnchecked(p) ==
    /\ conn[p].pc = "wait_ready"
    /\ conn' = [conn EXCEPT ![p].pc = "register"]
    /\ UNCHANGED <<connection_state, running, psock, receiver_ready, outgoing_queue,
                   incoming_queue, response_queues, net_out, net_in, handled, call,
                   sends, answered>>

\* BusClient.connect: receiver_ready.wait returned True
WaitReady(p) ==
    /\ conn[p].pc = "wait_ready"
    /\ receiver_ready[p]
    /\ conn' = [conn EXCEPT ![p].pc = "register"]
    /\ UNCHANGED <<connection_state, running, psock, receiver_ready, outgoing_queue,
                   incoming_queue, response_queues, net_out, net_in, handled, call,
                   sends, answered>>

\* BusClient.disconnect, on a running client: what it leaves behind
Disconnected(p) ==
    /\ running' = [running EXCEPT ![p] = FALSE]
    /\ connection_state' = [connection_state EXCEPT ![p] = "disconnected"]
    /\ psock' = [psock EXCEPT ![p] = NoSock]
    /\ outgoing_queue' = [outgoing_queue EXCEPT ![p] = << >>]
    /\ incoming_queue' = [incoming_queue EXCEPT ![p] = << >>]
    /\ response_queues' = [response_queues EXCEPT ![p] = << >>]
    /\ net_in' = [net_in EXCEPT ![p] = << >>]

\* BusClient.connect: receiver_ready.wait(timeout=5) returned False, the
\* receiver thread has not set the signal; connect() disconnects and
\* returns False
ReadyTimeout(p) ==
    /\ conn[p].pc = "wait_ready"
    /\ ~receiver_ready[p]
    /\ Disconnected(p)
    /\ conn' = [conn EXCEPT ![p] = ConnectFails(Closed(@, psock[p]))]
    /\ UNCHANGED <<receiver_ready, net_out, handled, call, sends, answered>>

\* BusClient.disconnect, called by the host after its connect() returned: a
\* client that is not running is left as it is; conn[p].disconnected says
\* that the last call of the host that returned is disconnect()
Disconnect(p) ==
    /\ conn[p].pc = "idle"
    /\ call[p].pc \in {"idle", "done"}
    /\ IF running[p]
       THEN Disconnected(p)
       ELSE UNCHANGED <<running, connection_state, psock, outgoing_queue,
                        incoming_queue, response_queues, net_in>>
    /\ conn' = [conn EXCEPT ![p] =
                   [(IF running[p] THEN Closed(@, psock[p]) ELSE @)
                       EXCEPT !.disconnected = TRUE]]
    /\ UNCHANGED <<receiver_ready, net_out, handled, call, sends, answered>>

\* BusClient._register_service: the register envelope is written on the
\* socket directly; a failed write makes connect() disconnect and return False
RegisterSend(p, ok) ==
    /\ conn[p].pc = "register"
    /\ IF ok
       THEN /\ net_out' = [net_out EXCEPT ![p] = Append(@, ToDict(RegData(p)))]
            /\ conn' = [conn EXCEPT ![p].pc = "wait_registered"]
            /\ UNCHANGED <<connection_state, running, psock, outgoing_queue,
                           incoming_queue, response_queues, net_in>>
       ELSE /\ Disconnected(p)
            /\ conn' = [conn EXCEPT ![p] = ConnectFails(Closed(@, psock[p]))]
            /\ UNCHANGED net_out
    /\ UNCHANGED <<receiver_ready, handled, call, sends, answered>>

\* BusClient._wait_for_response: the position of the first envelope of the
\* incoming queue with the expected action, 0 if there is none
RECURSIVE FirstWith(_, _, _)
FirstWith(q, action, i) ==
    IF i > Len(q) THEN 0
    ELSE IF q[i].action = action THEN i
    ELSE FirstWith(q, action, i + 1)

\* BusClient._register_service: _wait_for_response found `registered`; the
\* envelopes before it are back in the queue, the ones after it are gone
WaitRegistered(p) ==
    /\ conn[p].pc = "wait_registered"
    /\ LET i == FirstWith(incoming_queue[p], "registered", 1) IN
       /\ i > 0
       /\ incoming_queue' = [incoming_queue EXCEPT ![p] = SubSeq(@, 1, i - 1)]
    /\ connection_state' = [connection_state EXCEPT ![p] = "registered"]
    /\ conn' = [conn EXCEPT ![p] = ConnectSucceeds(@)]
    /\ UNCHANGED <<running, psock, receiver_ready, outgoing_queue, response_queues,
                   net_out, net_in, handled, call, sends, answered>>

\* the receive task has a frame to read and reads
ReceiverCanRead(p) ==
    running[p] /\ receiver_ready[p] /\ IsConnected(p) /\ net_in[p] # << >>

\* BusClient._register_service: _wait_for_response ran out of time (15 s,
\* against a receive task that polls every second: the wait ends only when
\* the receive task has nothing it would read); connect() disconnects and
\* returns False
RegisterTimeout(p) ==
    /\ conn[p].pc = "wait_registered"
    /\ FirstWith(incoming_queue[p], "registered", 1) = 0
    /\ ~ReceiverCanRead(p)
    /\ Disconnected(p)
    /\ conn' = [conn EXCEPT ![p] = ConnectFails(Closed(@, psock[p]))]
    /\ UNCHANGED <<receiver_ready, net_out, handled, call, sends, answered>>

\* ------------------------------------------------------------ the threads
\* BusClient._handle_heartbeat: the heartbeat has no sender, the pong no
\* destination
HandleHeartbeat(p, m) == Envelope("pong", p, m.sender, Nil, Nil, Nil)

\* BusClient._receiver_loop, one turn: nothing is read unless _is_connected;
\* a heartbeat is answered, a service_connected or service_disconnected
\* without data raises on message.data.get and is not enqueued, any other
\* frame is enqueued
ReceiverLoop(p) ==
    /\ running[p]
    /\ receiver_ready[p]
    /\ IF IsConnected(p) /\ net_in[p] # << >>
       THEN LET m == FromDict(Head(net_in[p])) IN
            /\ net_in' = [net_in EXCEPT ![p] = Tail(@)]
            /\ IF m.action = "heartbeat"
               THEN /\ outgoing_queue' =
                          [outgoing_queue EXCEPT ![p] = Append(@, HandleHeartbeat(p, m))]
                    /\ UNCHANGED incoming_queue
               ELSE IF m.action \in {"service_connected", "service_disconnected"}
                       /\ m.data = Nil
               THEN UNCHANGED <<outgoing_queue, incoming_queue>>
               ELSE /\ incoming_queue' = [incoming_queue EXCEPT ![p] = Append(@, m)]
                    /\ UNCHANGED outgoing_queue
       ELSE UNCHANGED <<net_in, outgoing_queue, incoming_queue>>
    /\ UNCHANGED <<connection_state, running, psock, receiver_ready, response_queues,
                   net_out, handled, call, conn, sends, answered>>

\* BusClient._sender_loop, one turn: the head of the outgoing queue goes on
\* the socket
SenderLoop(p) ==
    /\ running[p]
    /\ IF IsConnected(p) /\ outgoing_queue[p] # << >>
       THEN /\ net_out' = [net_out EXCEPT ![p] = Append(@, ToDict(Head(outgoing_queue[p])))]
            /\ outgoing_queue' = [outgoing_queue EXCEPT ![p] = Tail(@)]
       ELSE UNCHANGED <<net_out, outgoing_queue>>
    /\ UNCHANGED <<connection_state, running, psock, receiver_ready, incoming_queue,
                   response_queues, net_in, handled, call, conn, sends, answered>>

\* the host's send_message call for request_id has not returned yet
InCall(p, request_id) ==
    call[p].pc \in {"put", "waiting"} /\ call[p].request_id = request_id

\* a dispatch that answers every callback, whatever it returned, and leaves
\* the request_id out of the error
CallbackReplyUncorrelated(p, m, outcome, q) ==
    IF m.sender = Nil THEN q
    ELSE IF outcome.kind = "raise"
    THEN Append(q, Envelope("error", p, m.sender, Nil,
                            ErrorData(outcome.value, m.action), Nil))
    ELSE Append(q, Envelope("response", p, m.sender, Nil, outcome.value, m.request_id))

\* BusClient._process_message, after the callback: a returned value that is
\* not None goes back to the sender as `response`, an exception as `error`
\* with the action of the request, both only for a request that has a
\* request_id and a sender; q is the outgoing queue
CallbackReply(p, m, outcome, q) ==
    IF m.request_id = Nil \/ m.sender = Nil THEN q
    ELSE IF outcome.kind = "raise"
    THEN Append(q, Envelope("error", p, m.sender, Nil,
                            ErrorData(outcome.value, m.action), m.request_id))
    ELSE IF outcome.value # Nil
    THEN Append(q, Envelope("response", p, m.sender, Nil, outcome.value, m.request_id))
    ELSE q

\* the peer the relay callback sends to
RelayTarget == "a"

\* the request ids and payloads of the send_message calls of callbacks, by
\* the number of the request handled
HandlerRequestId(i) == RequestIds[MaxSends + i]
HandlerPayload(i) == Payloads[MaxSends + i]

\* the relay callback of p is inside its send_message(wait_for_response=True):
\* _process_message, and with it the processor thread, has not returned
HandlerRunning(p) == call[p].by = "handler" /\ call[p].pc \in {"put", "waiting"}

\* the relay callback, up to the put of its send_message: the callback runs
\* on the processor thread and calls send_message(RelayTarget, echo,
\* wait_for_response=True); it returns None when the call has returned
RelayCallback(p) ==
    LET i == Len(handled[p]) + 1 IN
    IF ~IsConnected(p)
    THEN UNCHANGED <<outgoing_queue, call>>
    ELSE /\ outgoing_queue' =
               [outgoing_queue EXCEPT ![p] =
                   Append(@, AppMsg(p, RelayTarget, HandlerPayload(i), HandlerRequestId(i)))]
         /\ call' = [call EXCEPT ![p] =
                        [pc |-> "put", request_id |-> HandlerRequestId(i), wait |-> TRUE,
                         result |-> NoResult, seen |-> connection_state[p],
                         by |-> "handler"]]

\* BusClient._processor_loop, one turn, with BusClient._process_message: an
\* envelope whose request_id has a response queue goes there; else the
\* callback of its action runs and its result goes back to the sender; else a
\* response or error with a request_id gets a new response queue; anything
\* else is dropped.  The loop takes no envelope while a callback runs.
ProcessorLoop(p) ==
    /\ running[p]
    /\ IF incoming_queue[p] = << >> \/ HandlerRunning(p)
       THEN UNCHANGED <<incoming_queue, response_queues, outgoing_queue, handled,
                        answered, call>>
       ELSE LET m == Head(incoming_queue[p])
                request_id == m.request_id
                rq == response_queues[p]
                inResponse == m.action = "response" /\ InCall(p, request_id)
            IN
            /\ incoming_queue' = [incoming_queue EXCEPT ![p] = Tail(@)]
            /\ IF request_id # Nil /\ request_id \in DOMAIN rq
               THEN /\ response_queues' =
                          [response_queues EXCEPT ![p][request_id] = Append(@, ToDict(m))]
                    /\ answered' = [answered EXCEPT ![p] =
                                       IF inResponse THEN @ \cup {request_id} ELSE @]
                    /\ UNCHANGED <<outgoing_queue, handled, call>>
               ELSE IF m.action = "relay" /\ m.action \in callbacks[p]
               THEN /\ handled' = [handled EXCEPT ![p] = Append(@, CallbackArg(m.data))]
                    /\ RelayCallback(p)
                    /\ UNCHANGED <<response_queues, answered>>
               ELSE IF m.action \in callbacks[p]
               THEN /\ handled' = [handled EXCEPT ![p] = Append(@, CallbackArg(m.data))]
                    /\ outgoing_queue' =
                          [outgoing_queue EXCEPT ![p] =
                              CallbackReply(p, m, Callback(m.action, CallbackArg(m.data)), @)]
                    /\ UNCHANGED <<response_queues, answered, call>>
               ELSE IF m.action \in {"response", "error"} /\ request_id # Nil
               THEN /\ response_queues' =
                          [response_queues EXCEPT ![p] = Put(rq, request_id, <<ToDict(m)>>)]
                    /\ answered' = [answered EXCEPT ![p] =
                                       IF inResponse THEN @ \cup {request_id} ELSE @]
                    /\ UNCHANGED <<outgoing_queue, handled, call>>
               ELSE UNCHANGED <<response_queues, outgoing_queue, handled, answered, call>>
    /\ UNCHANGED <<connection_state, running, psock, receiver_ready, net_out, net_in,
                   conn, sends>>

\* --------------------------------------------------------- send_message()
\* a send_message that puts its envelope whatever the state of the client
SendMessageUnchecked(p, d, wait) ==
    /\ call[p].pc \in {"idle", "done"}
    /\ sends[p] < MaxSends
    /\ LET i == sends[p] + 1 IN
       /\ outgoing_queue' =
             [outgoing_queue EXCEPT ![p] =
                 Append(@, AppMsg(p, d, Payload(i), RequestId(i)))]
       /\ sends' = [sends EXCEPT ![p] = i]
       /\ call' = [call EXCEPT ![p] =
                      [pc |-> IF wait THEN "put" ELSE "done",
                       request_id |-> RequestId(i), wait |-> wait,
                       result |-> NoResult, seen |-> connection_state[p],
                            by |-> "host"]]
    /\ UNCHANGED <<connection_state, running, psock, receiver_ready, incoming_queue,
                   response_queues, net_out, net_in, handled, conn, answered>>

\* BusClient.send_message, up to the put, called by any thread of the host:
\* a client that is not connected returns None; else the envelope, with a
\* fresh request_id, is enqueued and a call that does not wait returns None.
\* call[p].seen is the state _is_connected read.
SendMessage(p, d, wait) ==
    /\ call[p].pc \in {"idle", "done"}
    /\ sends[p] < MaxSends
    /\ IF ~IsConnected(p)
       THEN /\ call' = [call EXCEPT ![p] = [pc |-> "done", request_id |-> Nil,
                                            wait |-> wait, result |-> NoResult,
                                            seen |-> connection_state[p],
                                            by |-> "host"]]
            /\ UNCHANGED <<outgoing_queue, sends>>
       ELSE LET i == sends[p] + 1 IN
            /\ outgoing_queue' =
                  [outgoing_queue EXCEPT ![p] =
                      Append(@, AppMsg(p, d, Payload(i), RequestId(i)))]
            /\ sends' = [sends EXCEPT ![p] = i]
            /\ call' = [call EXCEPT ![p] =
                           [pc |-> IF wait THEN "put" ELSE "done",
                            request_id |-> RequestId(i), wait |-> wait,
                            result |-> NoResult, seen |-> connection_state[p],
                            by |-> "host"]]
    /\ UNCHANGED <<connection_state, running, psock, receiver_ready, incoming_queue,
                   response_queues, net_out, net_in, handled, conn, answered>>

\* BusClient._wait_for_specific_response: a new queue is stored under the
\* request_id
InstallSlot(p) ==
    /\ call[p].pc = "put"
    /\ response_queues' =
          [response_queues EXCEPT ![p] = Put(@, call[p].request_id, << >>)]
    /\ call' = [call EXCEPT ![p].pc = "waiting"]
    /\ UNCHANGED <<connection_state, running, psock, receiver_ready, outgoing_queue,
                   incoming_queue, net_out, net_in, handled, conn, sends, answered>>

\* the queue the waiting call holds has an envelope
SlotFilled(p) ==
    /\ call[p].request_id \in DOMAIN response_queues[p]
    /\ response_queues[p][call[p].request_id] # << >>

\* BusClient._wait_for_specific_response: the get returns the response; the
\* slot is removed
TakeResponse(p) ==
    /\ call[p].pc = "waiting"
    /\ SlotFilled(p)
    /\ call' = [call EXCEPT ![p].pc = "done",
                            ![p].result = Head(response_queues[p][call[p].request_id])]
    /\ response_queues' = [response_queues EXCEPT ![p] = Drop(@, call[p].request_id)]
    /\ UNCHANGED <<connection_state, running, psock, receiver_ready, outgoing_queue,
                   incoming_queue, net_out, net_in, handled, conn, sends, answered>>

\* BusClient._wait_for_specific_response: the get times out on the empty
\* queue and the call returns None; the slot is removed
ResponseTimeout(p) ==
    /\ call[p].pc = "waiting"
    /\ ~SlotFilled(p)
    /\ call' = [call EXCEPT ![p].pc = "done", ![p].result = NoResult]
    /\ response_queues' = [response_queues EXCEPT ![p] = Drop(@, call[p].request_id)]
    /\ UNCHANGED <<connection_state, running, psock, receiver_ready, outgoing_queue,
                   incoming_queue, net_out, net_in, handled, conn, sends, answered>>


\* the broker's event loop, heartbeat thread and clock; the frames come
\* from clients that may send anything
Next ==
    \/ \E sock \in Socks, ok \in BOOLEAN :
          AcceptNewConnection(sock, ok) /\ Idle
    \/ \E sock \in Socks, m \in InFrames, ok \in BOOLEAN :
          HandleClientMessage(sock, m, ok) /\ Idle
    \/ \E sock \in Socks : HandleClientClosed(sock) /\ Idle
    \/ \E sock \in Socks, ok \in BOOLEAN :
          HandleWritable(sock, ok) /\ Idle
    \/ HeartbeatScan /\ Idle
    \/ \E n \in Names : HeartbeatReap(n) /\ Idle
    \/ HeartbeatSend /\ Idle
    \/ Tick /\ Idle

Spec == Init /\ [][Next]_vars

\* ------------------------------------------------ the registry (Spec)
\* the frames a handler wrote on a socket
Replies(r, sock) == SelectSeq(r.sent, LAMBDA w : w.sock = sock)
HasReply(r, sock, action) == \E i \in 1 .. Len(r.sent) :
    r.sent[i].sock = sock /\ r.sent[i].msg.action = action

\* every socket_to_service entry is the binding of its name
NameBoundOnce ==
    \A c \in DOMAIN socket_to_service :
        /\ socket_to_service[c] \in DOMAIN services
        /\ services[socket_to_service[c]].socket = c

\* C1: a register for a name bound to another connection closes that
\* connection (out of inputs and outputs, queue dropped, socket closed) and
\* leaves the name bound to the registering connection alone, provided the
\* `registered` reply could be written (a failed write reaps the registering
\* connection in the same step); no name is ever claimed by two connections.
C1_Supersede ==
    /\ NameBoundOnce
    /\ last_event.kind = "supersede" =>
          LET c1 == last_event.old
              c2 == last_event.sock
              n == last_event.name
          IN /\ c1 # c2
             /\ c1 \notin inputs \cup outputs \cup open
             /\ c1 \notin DOMAIN message_queues
             /\ c1 \notin DOMAIN socket_to_service
             /\ \/ /\ c2 \in open \cap inputs
                   /\ n \in DOMAIN services
                   /\ services[n].socket = c2
                   /\ socket_to_service[c2] = n
                \/ /\ c2 \notin open \cup inputs
                   /\ n \notin DOMAIN services

C1_Witness ==
    /\ last_event.kind = "supersede"
    /\ last_event.name \in DOMAIN services
    /\ services[last_event.name].socket = last_event.sock
    /\ last_event.sock \in open

\* C3: a register envelope with the name in data.service_name, on a
\* connection not yet bound, binds the name to the connection and is
\* answered `registered` (with the name, and the name among the registered
\* services), not `error`.
C3_RegisterDataAccepted ==
    [][\A sock \in Socks, n \in Names :
        (/\ RegData(n) \in InFrames
         /\ HandleClientMessage(sock, RegData(n), TRUE)
         /\ sock \notin DOMAIN socket_to_service)
        => LET r == ProcessMessage(B, sock, RegData(n), TRUE, now) IN
           /\ n \in DOMAIN services' /\ services'[n].socket = sock
           /\ \E i \in 1 .. Len(r.sent) :
                 /\ r.sent[i].sock = sock
                 /\ r.sent[i].msg.action = "registered"
                 /\ r.sent[i].msg.service_name = n
                 /\ n \in r.sent[i].msg.registered_services
           /\ ~HasReply(r, sock, "error")]_vars

\* C5: every registry entry is bound to a socket in the input set that has
\* an outbound queue, and services and socket_to_service are inverse maps.
C5_RegistryConsistent ==
    /\ \A n \in DOMAIN services :
          /\ services[n].socket \in inputs
          /\ services[n].socket \in DOMAIN message_queues
          /\ services[n].socket \in DOMAIN socket_to_service
          /\ socket_to_service[services[n].socket] = n
    /\ NameBoundOnce

\* C7: an envelope for a destination that is not registered is answered on
\* the same connection with an `error` envelope carrying the envelope's
\* request_id; the connection stays open and the registry is unchanged.
C7_UnknownDestination ==
    [][\A sock \in Socks, m \in InFrames :
        (/\ HandleClientMessage(sock, m, TRUE)
         /\ m.action \notin {"register", "ping", "discover", "broadcast"}
         /\ m.destination # Nil
         /\ m.destination \notin DOMAIN services)
        => LET r == ProcessMessage(B, sock, m, TRUE, now) IN
           /\ \E i \in 1 .. Len(r.sent) :
                 /\ r.sent[i].sock = sock
                 /\ r.sent[i].msg.action = "error"
                 /\ r.sent[i].msg.request_id = m.request_id
           /\ sock \in inputs' /\ sock \in open'
           /\ services' = services
           /\ socket_to_service' = socket_to_service]_vars

\* C9: every frame read on the connection bound to a name sets the
\* last_seen of the name to the current time.
C9_TouchOnEveryFrame ==
    [][\A sock \in DOMAIN socket_to_service, m \in InFrames :
        LET n == socket_to_service[sock] IN
        (/\ n \in DOMAIN services /\ services[n].socket = sock
         /\ HandleClientMessage(sock, m, TRUE)
         /\ sock \in DOMAIN socket_to_service' /\ socket_to_service'[sock] = n
         /\ n \in DOMAIN services' /\ services'[n].socket = sock)
        => services'[n].last_seen = now]_vars

\* C10: while a name stays bound, no step of the broker decreases its
\* last_seen (the clock does not run backwards).
C10_LastSeenMonotone ==
    [][\A n \in DOMAIN services \cap DOMAIN services' :
        services'[n].last_seen >= services[n].last_seen]_vars

C10_Witness ==
    /\ last_event.kind = "touch"
    /\ \E n \in DOMAIN services : services[n].last_seen = now /\ now > 0

\* C17: the `registered` envelope is never on an outbound queue, and a
\* connection has envelopes queued only after `registered` was written on
\* it: whatever is drained from the queue follows `registered` on the
\* socket, under every interleaving of the event loop and the heartbeat
\* thread.
C17_RegisteredFirst ==
    \A sock \in DOMAIN message_queues :
        /\ \A i \in 1 .. Len(message_queues[sock]) :
              message_queues[sock][i].action # "registered"
        /\ message_queues[sock] # << >> => sock \in reg_written

C17_Witness ==
    \E sock \in DOMAIN message_queues :
        /\ sock \in reg_written
        /\ message_queues[sock] # << >>
        /\ message_queues[sock][1].action = "heartbeat"

\* ------------------------------ the registry with three peers (SpecReg)
\* The broker with three sockets and three names and the clock at rest:
\* registers, closes, broadcasts and routed envelopes in every order.
MaxRegSock == 3
\* no queue grows beyond MaxRegQueue envelopes
MaxRegQueue == 2

RegSocks == 1 .. MaxRegSock
RegNames == Names \cup {"c"}

\* an envelope that was routed once already
Forwarded == [AppMsg("a", "b", "x1", "r1") EXCEPT !.hop = 1]

RegFrames ==
    {RegTop(n) : n \in RegNames}
    \cup {BroadcastReq("a"), AppMsg("a", "b", "x1", "r1"), Forwarded}

RegBounded(r) ==
    /\ \A s \in DOMAIN r.message_queues : Len(r.message_queues[s]) <= MaxRegQueue
    /\ \A n \in DOMAIN r.services : r.services[n].message_count <= MaxCount

\* BusServer._accept_new_connection
RegAccept(sock, ok) ==
    /\ Unreferenced(sock)
    /\ \A s \in RegSocks : Unreferenced(s) => sock <= s
    /\ LET r1 == [B EXCEPT !.inputs = inputs \cup {sock},
                           !.message_queues = Put(message_queues, sock, <<>>),
                           !.open = open \cup {sock}]
       IN Commit(SendToSocket(r1, sock, WelcomeMsg, ok))
    /\ last_event' = NoEvent
    /\ UNCHANGED now
    /\ hbUnchanged

\* BusServer._handle_client_message, a frame was read
RegRead(sock, m, ok) ==
    /\ sock \in inputs
    /\ LET r == ProcessMessage(B, sock, m, ok, now)
       IN RegBounded(r) /\ Commit(r) /\ last_event' = EventOf(B, r, sock, m)
    /\ UNCHANGED now
    /\ hbUnchanged

\* BusServer._handle_client_message (nothing read) and
\* BusServer._handle_exceptional_socket
RegClosed(sock) ==
    /\ sock \in inputs
    /\ LET r == CleanupSocket(B, sock)
       IN RegBounded(r) /\ Commit(r)
    /\ last_event' = NoEvent
    /\ UNCHANGED now
    /\ hbUnchanged

RegNext ==
    \/ \E sock \in RegSocks, ok \in BOOLEAN : RegAccept(sock, ok) /\ Idle
    \/ \E sock \in RegSocks, m \in RegFrames, ok \in BOOLEAN :
          RegRead(sock, m, ok) /\ Idle
    \/ \E sock \in RegSocks : RegClosed(sock) /\ Idle
    \/ \E sock \in RegSocks, ok \in BOOLEAN : HandleWritable(sock, ok) /\ Idle

SpecReg == Init /\ [][RegNext]_vars

\* how many copies of msg a queue holds, and the queue of a socket (empty
\* if it has none)
Count(q, msg) == Cardinality({i \in 1 .. Len(q) : q[i] = msg})
QueueOf(mq, c) == IF c \in DOMAIN mq THEN mq[c] ELSE << >>

\* C11: a register that newly binds name s to a connection enqueues exactly
\* one `service_connected` for s on the queue of every other registered
\* peer and none on the registering connection; a repeated register of the
\* same name on the same connection enqueues none.
C11_ServiceConnectedOnce ==
    [][\A sock \in RegSocks, s \in RegNames :
        RegRead(sock, RegTop(s), TRUE) =>
          LET Gain(c) == Count(QueueOf(message_queues', c), ServiceConnected(s))
                         - Count(QueueOf(message_queues, c), ServiceConnected(s))
          IN IF s \in DOMAIN services /\ services[s].socket = sock
             THEN \A c \in RegSocks : Gain(c) = 0
             ELSE /\ Gain(sock) = 0
                  /\ \A n \in DOMAIN services' \ {s} :
                        services'[n].socket # sock
                        => Gain(services'[n].socket) = 1]_vars

\* C12: in any step that closes a connection, every name that was bound to
\* it leaves the registry (or is bound to another connection), and every
\* peer that stays registered on its connection gets exactly one
\* `service_disconnected` for that name; no `service_disconnected` is
\* enqueued for a name whose connection was not closed in the step.
C12_ServiceDisconnectedOnce ==
    [][LET closed == open \ open'
           Gain(c, n) == Count(QueueOf(message_queues', c), ServiceDisconnected(n))
                         - Count(QueueOf(message_queues, c), ServiceDisconnected(n))
           Stays(p) == /\ p \in DOMAIN services /\ p \in DOMAIN services'
                       /\ services'[p].socket = services[p].socket
                       /\ services[p].socket \notin closed
       IN \A n \in DOMAIN services :
            IF services[n].socket \in closed
            THEN /\ ~(n \in DOMAIN services' /\ services'[n].socket = services[n].socket)
                 /\ \A p \in DOMAIN services : Stays(p) => Gain(services[p].socket, n) = 1
            ELSE \A c \in DOMAIN message_queues' : Gain(c, n) <= 0]_vars

\* C13: a register for a name bound to another connection has the old
\* socket closed and its queue discarded before the new binding is made,
\* and every other peer that stays registered has had
\* exactly `service_disconnected` and then `service_connected` for the name
\* appended to its queue.
C13_SupersedeOrder ==
    [][\A sock \in RegSocks, a \in RegNames :
        (/\ RegRead(sock, RegTop(a), TRUE)
         /\ a \in DOMAIN services
         /\ services[a].socket # sock)
        => LET old == services[a].socket
               r1 == CleanupSocket(B, old)
           IN /\ old \notin r1.open
              /\ old \notin DOMAIN r1.message_queues
              /\ \A p \in (DOMAIN services \cap DOMAIN services') \ {a} :
                    (/\ services'[p].socket = services[p].socket
                     /\ services[p].socket \notin {old, sock})
                    => QueueOf(message_queues', services[p].socket)
                       = QueueOf(message_queues, services[p].socket)
                         \o <<ServiceDisconnected(a), ServiceConnected(a)>>]_vars

\* C14: a register for name n2 on a connection bound to another name n1 is
\* answered `error`, leaves the connection open and the registry as it was.
C14_RenameRefused ==
    [][\A sock \in DOMAIN socket_to_service, n2 \in RegNames :
        (/\ RegRead(sock, RegTop(n2), TRUE)
         /\ socket_to_service[sock] # n2)
        => LET r == ProcessMessage(B, sock, RegTop(n2), TRUE, now) IN
           /\ HasReply(r, sock, "error")
           /\ sock \in open'
           /\ services' = services
           /\ socket_to_service' = socket_to_service]_vars

\* the envelopes the event loop routes rather than handles
Routed(m) ==
    /\ m.action \notin {"register", "ping", "discover", "broadcast"}
    /\ m.destination # Nil

\* C15: an envelope for a destination d in the registry is appended once to
\* the queue of d's connection, unchanged but for the hop count, which is
\* one more than it came with; the sender is answered `routed` naming d;
\* no other queue changes.
C15_RouteToKnown ==
    [][\A sock \in RegSocks, m \in RegFrames :
        (/\ RegRead(sock, m, TRUE)
         /\ Routed(m)
         /\ m.destination \in DOMAIN services)
        => LET d == services[m.destination].socket
               r == ProcessMessage(B, sock, m, TRUE, now)
           IN /\ d \in DOMAIN message_queues'
              /\ message_queues'[d] =
                    Append(QueueOf(message_queues, d), [m EXCEPT !.hop = m.hop + 1])
              /\ \A c \in DOMAIN message_queues' \ {d} :
                    message_queues'[c] = QueueOf(message_queues, c)
              /\ \E i \in 1 .. Len(r.sent) :
                    /\ r.sent[i].sock = sock
                    /\ r.sent[i].msg.action = "routed"
                    /\ r.sent[i].msg.destination = m.destination]_vars

\* C16: a `broadcast` from the connection bound to its sender is appended
\* once, with the same data, to the queue of every other registered peer
\* and not to the sender's; the sender is answered `broadcast_sent` with
\* the number of the other registered peers.
C16_BroadcastFanOut ==
    [][\A sock \in DOMAIN socket_to_service, m \in RegFrames :
        (/\ RegRead(sock, m, TRUE)
         /\ m.action = "broadcast"
         /\ socket_to_service[sock] = m.sender
         /\ m.sender \in DOMAIN services)
        => LET r == ProcessMessage(B, sock, m, TRUE, now)
               others == DOMAIN services \ {m.sender}
               Gain(c) == Count(QueueOf(message_queues', c), BroadcastMsg(m.sender, m.data))
                          - Count(QueueOf(message_queues, c), BroadcastMsg(m.sender, m.data))
           IN /\ Gain(sock) = 0
              /\ \A p \in others :
                    services[p].socket # sock => Gain(services[p].socket) = 1
              /\ \E i \in 1 .. Len(r.sent) :
                    /\ r.sent[i].sock = sock
                    /\ r.sent[i].msg.action = "broadcast_sent"
                    /\ r.sent[i].msg.count = Cardinality(others)]_vars

\* ------------------------------------------------- liveness of the peers
\* The same broker, with the time of the last frame read from each open
\* socket on record.
LiveFrames == {RegTop(n) : n \in Names} \cup {PingMsg("a"), AppMsg("a", "b", "x1", "r1")}

ReadAt(sock) ==
    last_frame' = [s \in open' \cap (DOMAIN last_frame \cup {sock}) |->
                      IF s = sock THEN now ELSE last_frame[s]]

StillOpen == last_frame' = [s \in open' \cap DOMAIN last_frame |-> last_frame[s]]

LiveNext ==
    \/ \E sock \in Socks : AcceptNewConnection(sock, TRUE) /\ ReadAt(sock) /\ UNCHANGED <<pvars, stream, drain>>
    \/ \E sock \in Socks, m \in LiveFrames : HandleClientMessage(sock, m, TRUE) /\ ReadAt(sock) /\ UNCHANGED <<pvars, stream, drain>>
    \/ \E sock \in Socks : HandleClientClosed(sock) /\ StillOpen /\ UNCHANGED <<pvars, stream, drain>>
    \/ \E sock \in Socks : HandleWritable(sock, TRUE) /\ StillOpen /\ UNCHANGED <<pvars, stream, drain>>
    \/ HeartbeatScan /\ StillOpen /\ UNCHANGED <<pvars, stream, drain>>
    \/ \E n \in Names : HeartbeatReap(n) /\ StillOpen /\ UNCHANGED <<pvars, stream, drain>>
    \/ HeartbeatSend /\ StillOpen /\ UNCHANGED <<pvars, stream, drain>>
    \/ Tick /\ StillOpen /\ UNCHANGED <<pvars, stream, drain>>

SpecLive == Init /\ [][LiveNext]_vars

\* the registered names whose connection has sent no frame for more than
\* three heartbeat intervals at time t
Silent(t) ==
    {n \in DOMAIN services :
        /\ services[n].socket \in DOMAIN last_frame
        /\ t - last_frame[services[n].socket] > 3 * heartbeat_interval}

\* C8: when a liveness tick has cleaned its inactive services, no peer that
\* was silent for more than 3 x heartbeat_interval at the tick is still
\* registered.
C8_SilentPeerReaped ==
    (hb_pc = "reap" /\ hb_inactive = {}) => Silent(hb_now) = {}

\* ------------------------------------------- the handshake (SpecPeer)
\* The peers start as constructed and their hosts call connect() and
\* send_message().  The broker's side of the handshake is this much: the
\* register envelope of a connection is read and answered, with `registered`
\* as the protocol documents it, or with what _register_service writes for
\* the envelope it was given.
BlankBroker(sock) ==
    [services |-> << >>, socket_to_service |-> << >>,
     message_queues |-> [s \in {sock} |-> << >>], inputs |-> {sock},
     outputs |-> {}, open |-> {sock}, sent |-> << >>]

RegisterReplies(sock, m) ==
    {RegisteredMsg(m.data, {m.data})}
    \cup {w.msg : w \in {ProcessMessage(BlankBroker(sock), sock, m, TRUE, 0).sent[i] :
                            i \in 1 .. Len(ProcessMessage(BlankBroker(sock), sock, m, TRUE, 0).sent)}}

BrokerAnswer(p, reply) ==
    /\ net_out[p] # << >>
    /\ net_out' = [net_out EXCEPT ![p] = Tail(@)]
    /\ IF psock[p] = NoSock
       THEN UNCHANGED <<net_in, conn>>
       ELSE /\ reply \in RegisterReplies(psock[p], Head(net_out[p]))
            /\ net_in' = [net_in EXCEPT ![p] = Append(@, reply)]
            /\ conn' = [conn EXCEPT ![p].replied =
                           @ \/ (reply.action = "registered"
                                 /\ conn[p].pc = "wait_registered")]
    /\ UNCHANGED <<connection_state, running, psock, receiver_ready, outgoing_queue,
                   incoming_queue, response_queues, handled, call, sends, answered>>

\* BusClient._register_service after the register envelope was written: the
\* outcome of _wait_for_response('registered')
AwaitRegistered(p) ==
    IF FirstWith(incoming_queue[p], "registered", 1) > 0
    THEN WaitRegistered(p)
    ELSE RegisterTimeout(p)

PeerNext ==
    \/ \E p \in Peers : ConnectBegin(p) /\ BrokerIdle
    \/ \E p \in Peers, sock \in Socks : ConnectTcp(p, sock) /\ BrokerIdle
    \/ \E p \in Callers : ConnectRefused(p) /\ BrokerIdle
    \/ \E p \in Callers : Reconnect(p) /\ BrokerIdle
    \/ \E p \in Callers : Disconnect(p) /\ BrokerIdle
    \/ \E p \in Peers : StartThreads(p) /\ BrokerIdle
    \/ \E p \in Peers : ReceiverStart(p) /\ BrokerIdle
    \/ \E p \in Peers : WaitReady(p) /\ BrokerIdle
    \/ \E p \in Callers : ReadyTimeout(p) /\ BrokerIdle
    \/ \E p \in Callers : ConnectWhileConnected(p) /\ BrokerIdle
    \/ \E p \in Peers, ok \in BOOLEAN : RegisterSend(p, ok) /\ BrokerIdle
    \/ \E p \in Peers : AwaitRegistered(p) /\ BrokerIdle
    \/ \E p \in Peers : ReceiverLoop(p) /\ BrokerIdle
    \/ \E p \in Peers : SenderLoop(p) /\ BrokerIdle
    \/ \E p \in Peers : ProcessorLoop(p) /\ BrokerIdle
    \/ \E p \in Peers, wait \in BOOLEAN : SendMessage(p, "b", wait) /\ BrokerIdle
    \/ \E p \in Peers :
          \E reply \in {RegisteredMsg(p, {p}), ErrorMsg("name_required")} :
              BrokerAnswer(p, reply) /\ BrokerIdle

SpecPeer == Init /\ [][PeerNext]_vars

\* C2: a connect() whose register envelope the broker answered with
\* `registered` while the peer was waiting for it does not fail: it returns
\* success with the peer Registered.
C2_ConnectRegisters ==
    \A p \in Peers :
        (conn[p].pc = "idle" /\ conn[p].replied)
        => (conn[p].result = "ok" /\ connection_state[p] = "registered")

\* the host of p calls send_message in this step
Sends(p) ==
    call[p].pc \in {"idle", "done"} /\ call'[p] # call[p] /\ call'[p].by = "host"

\* C20: a send_message called in a connection state other than Registered
\* (Disconnected, Connecting, Connected, Error) returns the failure value,
\* puts nothing on the outgoing queue and creates no pending-response slot
C20_SendRequiresRegistered ==
    [][\A p \in Peers :
          (Sends(p) /\ connection_state[p] # "registered") =>
              /\ call'[p].pc = "done"
              /\ call'[p].result = NoResult
              /\ call'[p].request_id = Nil
              /\ outgoing_queue'[p] = outgoing_queue[p]
              /\ response_queues'[p] = response_queues[p]]_vars

\* one host was refused while its client was in Error, the other one while
\* its client was Connected and not yet registered
C20_Witness ==
    \E p, q \in Peers :
        /\ call[p].pc = "done" /\ call[p].seen = "error"
        /\ call[q].pc = "done" /\ call[q].seen = "connected"
        /\ outgoing_queue[p] = << >> /\ outgoing_queue[q] = << >>

\* C22: after disconnect() has returned, whatever the state it was called
\* in, the client is Disconnected, has no socket, and its outgoing queue,
\* incoming queue and pending-response table are empty
C22_DisconnectPostcondition ==
    \A p \in Peers :
        (conn[p].pc = "idle" /\ conn[p].disconnected) =>
            /\ connection_state[p] = "disconnected"
            /\ psock[p] = NoSock
            /\ outgoing_queue[p] = << >>
            /\ incoming_queue[p] = << >>
            /\ response_queues[p] = << >>

\* ------------------------------------- registered peers on the bus (SpecBus)
\* Both peers are past the handshake as the protocol documents it: a holds
\* socket 1, b holds socket 2, both names are in the registry.  a's host
\* sends to b; the broker routes; no socket write fails and nobody
\* reconnects.
ConnOf(p) == IF p = "a" THEN 1 ELSE 2

BusInit ==
    /\ services = [p \in Peers |-> ServiceInfo(ConnOf(p), 0)]
    /\ socket_to_service = [s \in {ConnOf(p) : p \in Peers} |->
                               CHOOSE p \in Peers : ConnOf(p) = s]
    /\ message_queues = [s \in {ConnOf(p) : p \in Peers} |-> << >>]
    /\ inputs = {ConnOf(p) : p \in Peers}
    /\ outputs = {}
    /\ open = {ConnOf(p) : p \in Peers}
    /\ reg_written = {ConnOf(p) : p \in Peers}
    /\ now = 0
    /\ last_frame = << >>
    /\ stream = NoStream
    /\ drain = NoDrain
    /\ last_event = NoEvent
    /\ hb_pc = "reap"
    /\ hb_now = 0
    /\ hb_inactive = {}
    /\ connection_state = [p \in Peers |-> "registered"]
    /\ running = [p \in Peers |-> TRUE]
    /\ psock = [p \in Peers |-> ConnOf(p)]
    /\ receiver_ready = [p \in Peers |-> TRUE]
    /\ outgoing_queue = [p \in Peers |-> << >>]
    /\ incoming_queue = [p \in Peers |-> << >>]
    /\ response_queues = [p \in Peers |-> << >>]
    /\ net_out = [p \in Peers |-> << >>]
    /\ net_in = [p \in Peers |-> << >>]
    /\ handled = [p \in Peers |-> << >>]
    /\ call = [p \in Peers |-> IdleCall]
    /\ conn = [p \in Peers |-> [IdleConn EXCEPT !.result = "ok", !.attempts = 1,
                                                !.sockets = {ConnOf(p)},
                                                !.tasks = 1]]
    /\ sends = [p \in Peers |-> 0]
    /\ answered = [p \in Peers |-> {}]

\* the frames the broker wrote, each on the wire of the peer that holds the
\* socket
RECURSIVE Deliver(_, _)
Deliver(net, sent) ==
    IF sent = << >> THEN net
    ELSE LET w == Head(sent)
             to == {p \in Peers : psock[p] = w.sock}
         IN Deliver([p \in Peers |-> IF p \in to THEN Append(net[p], w.msg) ELSE net[p]],
                    Tail(sent))

\* BusServer._handle_client_message on the next frame of a peer
BusRead(p) ==
    /\ net_out[p] # << >>
    /\ psock[p] \in inputs
    /\ LET m == Head(net_out[p])
           r == ProcessMessage(B, psock[p], m, TRUE, now)
       IN /\ Commit(r)
          /\ last_event' = EventOf(B, r, psock[p], m)
          /\ net_in' = Deliver(net_in, r.sent)
    /\ net_out' = [net_out EXCEPT ![p] = Tail(@)]
    /\ hbUnchanged
    /\ UNCHANGED <<now, last_frame, stream, drain, connection_state, running, psock, receiver_ready,
                   outgoing_queue, incoming_queue, response_queues, handled, call,
                   conn, sends, answered>>

\* BusServer._main_loop, a writable socket of a peer
BusWritable(sock) ==
    /\ HandleWritable(sock, TRUE)
    /\ net_in' = Deliver(net_in, SendPendingMessages(B, sock, TRUE).sent)
    /\ UNCHANGED <<last_frame, stream, drain, connection_state, running, psock,
                   receiver_ready,
                   outgoing_queue, incoming_queue, response_queues, net_out, handled,
                   call, conn, sends, answered>>

BusNext ==
    \/ \E p \in Callers, wait \in BOOLEAN : SendMessage(p, "b", wait) /\ BrokerIdle
    \/ \E p \in Peers : InstallSlot(p) /\ BrokerIdle
    \/ \E p \in Peers : TakeResponse(p) /\ BrokerIdle
    \/ \E p \in Peers : ResponseTimeout(p) /\ BrokerIdle
    \/ \E p \in Peers : SenderLoop(p) /\ BrokerIdle
    \/ \E p \in Peers : ReceiverLoop(p) /\ BrokerIdle
    \/ \E p \in Peers : ProcessorLoop(p) /\ BrokerIdle
    \/ \E p \in Peers : BusRead(p)
    \/ \E sock \in Socks : BusWritable(sock)
    \/ HeartbeatSend /\ Idle
    \/ CleanupLoop /\ Idle

SpecBus == BusInit /\ [][BusNext]_vars

EchoData(q) ==
    LET e == SelectSeq(q, LAMBDA m : m.action = "echo")
    IN [i \in 1 .. Len(e) |-> e[i].data]

\* a's echo payloads from the handler at b back to a's outgoing queue
Pipeline ==
    handled["b"]
    \o EchoData(incoming_queue["b"])
    \o EchoData(net_in["b"])
    \o (IF psock["b"] \in DOMAIN message_queues
        THEN EchoData(message_queues[psock["b"]]) ELSE << >>)
    \o EchoData(net_out["a"])
    \o EchoData(outgoing_queue["a"])

MaxArrive == 3

DispatchFrames ==
    {[Envelope(action, sender, "b", Nil, data, request_id) EXCEPT !.hop = 1] :
        action \in {"echo", "notify", "fail"}, sender \in {"a", Nil},
        data \in {Payload(1), Nil}, request_id \in {RequestId(1), Nil}}

\* the broker writes a frame on the connection of p
Arrive(p, m) ==
    /\ Len(net_in[p]) + Len(incoming_queue[p]) + Len(handled[p]) < MaxArrive
    /\ net_in' = [net_in EXCEPT ![p] = Append(@, m)]
    /\ UNCHANGED <<connection_state, running, psock, receiver_ready, outgoing_queue,
                   incoming_queue, response_queues, net_out, handled, call, conn,
                   sends, answered>>

DispatchNext ==
    \/ \E m \in DispatchFrames : Arrive("b", m) /\ BrokerIdle
    \/ \E p \in Peers : ReceiverLoop(p) /\ BrokerIdle
    \/ \E p \in Peers : ProcessorLoop(p) /\ BrokerIdle
    \/ \E p \in Peers : SenderLoop(p) /\ BrokerIdle

SpecDispatch == BusInit /\ [][DispatchNext]_vars

\* the dispatch task of p takes a request of a callback in this step
Dispatches(p) ==
    /\ incoming_queue[p] # << >>
    /\ incoming_queue'[p] = Tail(incoming_queue[p])
    /\ Head(incoming_queue[p]).action \in callbacks[p]
    /\ handled'[p] # handled[p]

\* C19: when the dispatch task invokes a handler for a request with
\* request_id r and sender s, a returned value puts exactly one `response`
\* with request_id r, destination s and the value as data on the outgoing
\* queue; an exception puts exactly one `error` with request_id r,
\* destination s and the action of the request, and the task goes on with
\* the next envelope; a request without request_id, or a handler that
\* returns nothing, puts no reply
C19_ResponseCorrelation ==
    [][\A p \in Peers : Dispatches(p) =>
          LET m == Head(incoming_queue[p])
              outcome == Callback(m.action, CallbackArg(m.data))
              q == outgoing_queue[p]
          IN
          /\ running'[p]
          /\ IF m.request_id = Nil \/ (outcome.kind = "return" /\ outcome.value = Nil)
             THEN outgoing_queue'[p] = q
             ELSE IF m.sender = Nil
             THEN TRUE
             ELSE IF outcome.kind = "return"
             THEN outgoing_queue'[p] =
                     Append(q, [action |-> "response", sender |-> p,
                                destination |-> m.sender, service_name |-> Nil,
                                data |-> outcome.value, request_id |-> m.request_id,
                                hop |-> 0, registered_services |-> {}, count |-> 0,
                                error |-> Nil])
             ELSE /\ Len(outgoing_queue'[p]) = Len(q) + 1
                  /\ SubSeq(outgoing_queue'[p], 1, Len(q)) = q
                  /\ LET e == outgoing_queue'[p][Len(q) + 1] IN
                     /\ e.action = "error"
                     /\ e.request_id = m.request_id
                     /\ e.destination = m.sender
                     /\ e.data = ErrorData(outcome.value, m.action)]_vars

\* the handler of b raised for a request, the error went out, and the
\* dispatch task has handled a later request and answered it
C19_Witness ==
    /\ Len(handled["b"]) >= 2
    /\ \E i, j \in 1 .. Len(net_out["b"]) :
          /\ i < j
          /\ net_out["b"][i].action = "error"
          /\ net_out["b"][j].action = "response"

\* --------------------------------- callbacks that call send (SpecHandler)
\* Both peers are registered.  Requests for the relay callback arrive at b;
\* the callback sends an echo request to a and waits for the response; the
\* broker routes; the host of a sends echo requests to b as well.  A waiting
\* call runs out of time only when nothing else on the bus can move: every
\* queue and connection is empty, but for the envelopes a dispatch task
\* cannot take while its callback runs.
RelayFrame == [Envelope("relay", "a", "b", Nil, Payload(1), Nil) EXCEPT !.hop = 1]

Quiet ==
    /\ \A q \in Peers :
          /\ outgoing_queue[q] = << >>
          /\ net_out[q] = << >>
          /\ net_in[q] = << >>
          /\ incoming_queue[q] = << >> \/ HandlerRunning(q)
          /\ call[q].pc # "put"
    /\ \A sock \in DOMAIN message_queues : message_queues[sock] = << >>

\* BusClient._wait_for_specific_response: the get times out, on a quiet bus
QuietTimeout(p) == Quiet /\ ResponseTimeout(p)

HandlerNext ==
    \/ Arrive("b", RelayFrame) /\ BrokerIdle
    \/ \E p \in Callers, wait \in BOOLEAN : SendMessage(p, "b", wait) /\ BrokerIdle
    \/ \E p \in Peers : InstallSlot(p) /\ BrokerIdle
    \/ \E p \in Peers : TakeResponse(p) /\ BrokerIdle
    \/ \E p \in Peers : QuietTimeout(p) /\ BrokerIdle
    \/ \E p \in Peers : SenderLoop(p) /\ BrokerIdle
    \/ \E p \in Peers : ReceiverLoop(p) /\ BrokerIdle
    \/ \E p \in Peers : ProcessorLoop(p) /\ BrokerIdle
    \/ \E p \in Peers : BusRead(p)
    \/ \E sock \in Socks : BusWritable(sock)

SpecHandler == BusInit /\ [][HandlerNext]_vars

\* the callback of the target has handled the request of this call
TargetReplied(request_id) ==
    \E i \in 1 .. Len(RequestIds) - MaxSends :
        /\ HandlerRequestId(i) = request_id
        /\ \E k \in 1 .. Len(handled[RelayTarget]) :
              handled[RelayTarget][k] = HandlerPayload(i)

ReconnectNext ==
    \/ \E p \in Callers : ConnectBegin(p) /\ BrokerIdle
    \/ \E p \in Callers, sock \in Socks : ConnectTcp(p, sock) /\ BrokerIdle
    \/ \E p \in Callers : ConnectRefused(p) /\ BrokerIdle
    \/ \E p \in Callers : Reconnect(p) /\ BrokerIdle
    \/ \E p \in Callers : StartThreads(p) /\ BrokerIdle
    \/ \E p \in Callers : ReceiverStart(p) /\ BrokerIdle
    \/ \E p \in Callers : WaitReady(p) /\ BrokerIdle
    \/ \E p \in Callers : ReadyTimeout(p) /\ BrokerIdle
    \/ \E p \in Callers : ConnectWhileConnected(p) /\ BrokerIdle
    \/ \E p \in Callers, ok \in BOOLEAN : RegisterSend(p, ok) /\ BrokerIdle
    \/ \E p \in Callers : AwaitRegistered(p) /\ BrokerIdle
    \/ \E p \in Callers : Disconnect(p) /\ BrokerIdle
    \/ \E p \in Callers : ReceiverLoop(p) /\ BrokerIdle
    \/ \E p \in Callers : SenderLoop(p) /\ BrokerIdle
    \/ \E p \in Callers : ProcessorLoop(p) /\ BrokerIdle
    \/ \E p \in Callers, wait \in BOOLEAN : SendMessage(p, "b", wait) /\ BrokerIdle
    \/ \E p \in Callers :
          \E reply \in {RegisteredMsg(p, {p}), ErrorMsg("name_required")} :
              BrokerAnswer(p, reply) /\ BrokerIdle

SpecReconnect == Init /\ [][ReconnectNext]_vars

\* C24: after a transition into Error the reconnect procedure calls
\* connect() at most max_reconnect_attempts times and then stops
C24_ReconnectBudget ==
    \A p \in Peers : conn[p].tries <= max_reconnect_attempts

\* C25: once the reconnect procedure has given up (the budget is spent and
\* on_disconnect was fired) the client is Disconnected, and stays so until
\* the host calls connect() again
C25_ExhaustedIsDisconnected ==
    \A p \in Peers :
        (conn[p].pc = "idle" /\ conn[p].exhausted)
        => connection_state[p] = "disconnected"

\* a connect() of the host returns in this step
ConnectReturns(p) ==
    conn[p].pc # "idle" /\ conn'[p].pc = "idle" /\ ~conn[p].by_task

\* C27: connect() returns success only with the client Registered at that
\* moment and failure only with the client not Registered, also for the
\* connect() of a second thread
C27_ConnectResultMatchesState ==
    [][\A p \in Peers :
          /\ ConnectReturns(p) =>
                (conn'[p].result = "ok" <=> connection_state'[p] = "registered")
          /\ (conn[p].second = "none" /\ conn'[p].second = "ok") =>
                connection_state'[p] = "registered"]_vars

\* the register envelope is written on the connection of p in this step
RegisterWritten(p) ==
    /\ Len(net_out'[p]) = Len(net_out[p]) + 1
    /\ net_out'[p][Len(net_out'[p])].action = "register"

\* C29: connect() writes the register envelope only after the receiver
\* thread has set the readiness signal; when the wait for the signal runs
\* out, nothing is written and the connect() fails
C29_ReadyBeforeRegister ==
    [][\A p \in Peers :
          /\ RegisterWritten(p) => receiver_ready[p]
          /\ (conn[p].pc = "wait_ready" /\ conn'[p].pc # "wait_ready"
                 /\ ~receiver_ready[p]) =>
                /\ net_out'[p] = net_out[p]
                /\ connection_state'[p] = "disconnected"
                /\ conn'[p].pc \in {"idle", "backoff"}
                /\ conn'[p].pc = "idle" => conn'[p].result = "fail"]_vars

\* a second connect() of the host, after one that failed, has written its
\* register envelope with the receiver thread ready
C29_Witness ==
    \E p \in Peers :
        /\ conn[p].attempts = 2
        /\ conn[p].pc = "wait_registered"
        /\ receiver_ready[p]
        /\ net_out[p] # << >>
        /\ net_out[p][Len(net_out[p])].action = "register"

\* --------------------- a registered peer loses its connection (SpecLoss)
\* Both peers are registered.  The host of a sends to b, connects again and
\* disconnects; the connection of a may break, and the thread that finds
\* out reconnects; the broker routes what it reads and accepts or refuses
\* new connections.
LossNext ==
    \/ \E p \in Callers, wait \in BOOLEAN : SendMessage(p, "b", wait) /\ BrokerIdle
    \/ \E p \in Peers : InstallSlot(p) /\ BrokerIdle
    \/ \E p \in Peers : TakeResponse(p) /\ BrokerIdle
    \/ \E p \in Peers : ResponseTimeout(p) /\ BrokerIdle
    \/ \E p \in Peers : SenderLoop(p) /\ BrokerIdle
    \/ \E p \in Peers : ReceiverLoop(p) /\ BrokerIdle
    \/ \E p \in Peers : ProcessorLoop(p) /\ BrokerIdle
    \/ \E p \in Peers : BusRead(p)
    \/ \E sock \in Socks : BusWritable(sock)
    \/ \E p \in Callers : ConnectionLost(p) /\ BrokerIdle
    \/ \E p \in Callers : Reconnect(p) /\ BrokerIdle
    \/ \E p \in Callers : ConnectBegin(p) /\ BrokerIdle
    \/ \E p \in Callers, sock \in RegSocks : ConnectTcp(p, sock) /\ BrokerIdle
    \/ \E p \in Callers : ConnectRefused(p) /\ BrokerIdle
    \/ \E p \in Callers : StartThreads(p) /\ BrokerIdle
    \/ \E p \in Callers : ReceiverStart(p) /\ BrokerIdle
    \/ \E p \in Callers : WaitReady(p) /\ BrokerIdle
    \/ \E p \in Callers, ok \in BOOLEAN : RegisterSend(p, ok) /\ BrokerIdle
    \/ \E p \in Callers : AwaitRegistered(p) /\ BrokerIdle
    \/ \E p \in Callers : Disconnect(p) /\ BrokerIdle

SpecLoss == BusInit /\ [][LossNext]_vars

Transitions ==
    {<<"disconnected", "connecting">>, <<"connecting", "connected">>,
     <<"connected", "registered">>, <<"error", "connecting">>}
    \cup {<<st, "error">> : st \in {"disconnected", "connecting", "connected", "registered"}}
    \cup {<<st, "disconnected">> : st \in {"connecting", "connected", "registered", "error"}}

max_message_size == 2
\* the values a payload byte takes
MaxByte == 1
\* the frames written in one run
MaxFrames == 2

\* the payloads that are JSON texts and fit a frame
FramePayloads == UNION {[1..n -> 0..MaxByte] : n \in 1..max_message_size}

\* the JSON texts a sender can put in a frame, those too long included
AllPayloads == UNION {[1..n -> 0..MaxByte] : n \in 1..(max_message_size + 1)}

\* len(message_bytes).to_bytes(4, 'big', signed=False)
ToBytes(n) == <<(n \div 16777216) % 256, (n \div 65536) % 256, (n \div 256) % 256, n % 256>>

\* int.from_bytes(header, 'big', signed=False), of however many bytes header has
RECURSIVE FromBytes(_)
FromBytes(h) ==
    IF h = << >> THEN 0
    ELSE 256 * FromBytes(SubSeq(h, 1, Len(h) - 1)) + h[Len(h)]

\* size_bytes + message_bytes
WriteFrame(payload) == ToBytes(Len(payload)) \o payload

\* sock.recv(n) on a socket whose buffer holds buf: the bytes returned
Recv(buf, n) == SubSeq(buf, 1, IF Len(buf) < n THEN Len(buf) ELSE n)

\* the buffer after sock.recv(n)
AfterRecv(buf, n) == SubSeq(buf, Len(Recv(buf, n)) + 1, Len(buf))

\* json.loads(message_data.decode('utf-8')): JSONDecodeError on anything that
\* is not a JSON text
JsonLoads(data) == [ok |-> data \in AllPayloads, data |-> data]

\* what a reader returns when it returns None after it decoded the header
\* value size and took n payload bytes, leaving rest unread
ReturnsNone(rest, size, n) ==
    [ok |-> FALSE, data |-> << >>, rest |-> rest, header |-> size, body |-> n]

\* BusServer._receive_message on a readable socket whose buffer holds buf:
\* one recv(4) for the header, the size taken from whatever it returned, then
\* recv until size bytes are in; a recv that finds the buffer empty raises
\* BlockingIOError, which the last except clause turns into None
ReceiveMessage(buf) ==
    LET header == Recv(buf, 4)
        body == AfterRecv(buf, 4)
        message_size == FromBytes(header)
    IN IF header = << >> THEN ReturnsNone(body, 0, 0)
       ELSE IF message_size > max_message_size THEN ReturnsNone(body, message_size, 0)
       ELSE IF Len(body) < message_size THEN ReturnsNone(<< >>, message_size, Len(body))
       ELSE LET message == JsonLoads(Recv(body, message_size))
            IN [ok |-> message.ok, data |-> message.data,
                rest |-> AfterRecv(body, message_size),
                header |-> message_size, body |-> message_size]

\* BusClient._receive_raw_message on a socket whose buffer holds buf: the same
\* steps on a blocking socket with a timeout and with no test of the size; a
\* recv that finds the buffer empty ends in socket.timeout, which is turned
\* into None
ReceiveRawMessage(buf) ==
    LET header == Recv(buf, 4)
        body == AfterRecv(buf, 4)
        message_size == FromBytes(header)
    IN IF header = << >> THEN ReturnsNone(body, 0, 0)
       ELSE IF Len(body) < message_size THEN ReturnsNone(<< >>, message_size, Len(body))
       ELSE LET message == JsonLoads(Recv(body, message_size))
            IN [ok |-> message.ok, data |-> message.data,
                rest |-> AfterRecv(body, message_size),
                header |-> message_size, body |-> message_size]

\* BusServer._send_to_socket: one sock.send of header and payload, which
\* accepts k of its bytes and is not repeated for the rest; with no room at
\* all (k = 0) send raises BlockingIOError and the socket is cleaned up
SocketSend(payload, k) ==
    /\ stream.reaped = "no"
    /\ Len(stream.sent) < MaxFrames
    /\ k \in 0..Len(WriteFrame(payload))
    /\ stream' = [stream EXCEPT !.sent = Append(@, payload),
                                !.wire = @ \o SubSeq(WriteFrame(payload), 1, k),
                                !.reaped = IF k = 0 THEN "send" ELSE "no"]
    /\ UNCHANGED <<bvars, last_frame, drain, pvars>>

\* the transport delivers the next k bytes in flight to the reader's buffer
Transport(k) ==
    /\ k \in 1..Len(stream.wire)
    /\ stream' = [stream EXCEPT !.wire = SubSeq(@, k + 1, Len(@)),
                                !.arrived = @ \o SubSeq(stream.wire, 1, k)]
    /\ UNCHANGED <<bvars, last_frame, drain, pvars>>

\* BusServer._handle_client_message on a readable socket: a message is
\* processed, None has the socket cleaned up
HandleClientFrame ==
    /\ stream.reaped = "no"
    /\ stream.reader = "broker"
    /\ stream.arrived # << >>
    /\ LET r == ReceiveMessage(stream.arrived)
       IN stream' = [stream EXCEPT !.arrived = IF r.ok THEN r.rest ELSE << >>,
                                   !.read = IF r.ok THEN Append(@, r.data) ELSE @,
                                   !.reaped = IF r.ok THEN "no" ELSE "recv",
                                   !.header = r.header, !.body = r.body,
                                   !.returned = IF r.ok THEN "message" ELSE "none"]
    /\ UNCHANGED <<bvars, last_frame, drain, pvars>>

FrameNext ==
    \/ \E payload \in FramePayloads, k \in 0..(4 + max_message_size) : SocketSend(payload, k)
    \/ \E k \in 1..(MaxFrames * (4 + max_message_size)) : Transport(k)
    \/ HandleClientFrame

SpecFrame == Init /\ [][FrameNext]_vars

\* C30: every frame the reader returns is the frame the writer wrote at that
\* position of the stream, however the transport splits the bytes, and a
\* frame that is only partly written or only partly arrived never has the
\* connection reaped by the reader
C30_FrameRoundTrip ==
    /\ stream.reaped # "recv"
    /\ Len(stream.read) <= Len(stream.sent)
    /\ \A i \in 1..Len(stream.read) : stream.read[i] = stream.sent[i]

\* ------------------------------------------------------- oversize frames
\* A connection whose reader is the broker's or a peer's, and whose writer
\* puts whole frames on it, frames with a payload longer than
\* max_message_size included.

\* BusClient._send_message: sendall of header and payload
SendAll(payload) ==
    /\ stream.reaped = "no"
    /\ Len(stream.sent) < MaxFrames
    /\ stream' = [stream EXCEPT !.sent = Append(@, payload),
                                !.wire = @ \o WriteFrame(payload)]
    /\ UNCHANGED <<bvars, last_frame, drain, pvars>>

\* BusClient._receiver_loop, one _receive_raw_message: a message is queued,
\* None is taken for a timeout and the loop goes on
ReceiverRead ==
    /\ stream.reader = "peer"
    /\ stream.arrived # << >>
    /\ LET r == ReceiveRawMessage(stream.arrived)
       IN stream' = [stream EXCEPT !.arrived = r.rest,
                                   !.read = IF r.ok THEN Append(@, r.data) ELSE @,
                                   !.header = r.header, !.body = r.body,
                                   !.returned = IF r.ok THEN "message" ELSE "none"]
    /\ UNCHANGED <<bvars, last_frame, drain, pvars>>

OversizeInit ==
    /\ BrokerInit /\ PeersInit /\ last_frame = << >> /\ drain = NoDrain
    /\ \E reader \in {"broker", "peer"} : stream = [NoStream EXCEPT !.reader = reader]

OversizeNext ==
    \/ \E payload \in AllPayloads : SendAll(payload)
    \/ \E k \in 1..(MaxFrames * (5 + max_message_size)) : Transport(k)
    \/ HandleClientFrame
    \/ ReceiverRead

SpecOversize == OversizeInit /\ [][OversizeNext]_vars

\* C31: a reader that decoded a header value greater than max_message_size
\* took no payload byte from the socket and returned no message
C31_OversizeRejected ==
    stream.header > max_message_size =>
        /\ stream.body = 0
        /\ stream.returned = "none"

\* -------------------------------------------------------- protocol errors
\* The broker reading frames whose payload is any JSON value, or no JSON.

\* what a payload is: no JSON text ("malformed") or a JSON value of a kind
JsonKinds == {"malformed", "object", "empty_object", "array", "empty_array",
              "string", "empty_string", "number", "zero", "true", "false", "null"}

\* the JSON objects
IsObject(kind) == kind \in {"object", "empty_object"}

\* `if message:` on the value json.loads returned
Truthy(kind) == kind \in {"object", "array", "string", "number", "true"}

\* BusServer._handle_client_message on a frame whose payload is of a kind (m
\* is the object when it is a non-empty object), the writes succeeding:
\* _receive_message returns None for what is no JSON, None and every falsy
\* value have the socket cleaned up, and in _process_message the message.get
\* of a value that is no dict raises AttributeError, which is answered with
\* an error envelope
ReceiveAndProcess(r, sock, kind, m, t) ==
    IF kind = "malformed" \/ ~Truthy(kind) THEN CleanupSocket(r, sock)
    ELSE IF kind = "object" THEN ProcessMessage(r, sock, m, TRUE, t)
    ELSE SendError(r, sock, "internal", TRUE)

HandleClientPayload(sock, kind, m) ==
    /\ sock \in inputs
    /\ LET r == ReceiveAndProcess(B, sock, kind, m, now)
       IN Bounded(r) /\ Commit(r)
    /\ last_event' = [kind |-> "payload", sock |-> sock, name |-> kind, old |-> 0]
    /\ UNCHANGED now
    /\ hbUnchanged

ProtocolNext ==
    \/ \E sock \in Socks : AcceptNewConnection(sock, TRUE) /\ Idle
    \/ \E sock \in Socks, kind \in JsonKinds, m \in InFrames :
          HandleClientPayload(sock, kind, m) /\ Idle
    \/ \E sock \in Socks : HandleClientClosed(sock) /\ Idle
    \/ \E sock \in Socks : HandleWritable(sock, TRUE) /\ Idle

SpecProtocol == Init /\ [][ProtocolNext]_vars

\* C32: after the broker handled a frame, with its writes succeeding, the
\* connection the frame came on is closed exactly when the payload was no
\* JSON object
C32_ClosedIffNotObject ==
    last_event.kind = "payload" =>
        (last_event.sock \notin open <=> ~IsObject(last_event.name))

\* ------------------------------------------------------- queue high water
\* The outbound queues of two registered connections filling up, and the
\* cleanup thread compacting them.

\* the deepest queue explored
MaxDepth == 4

\* queue.put(msg) on the queue of a connection, under the lock, with the
\* socket added to the output set
QueuePut(sock, msg) ==
    /\ sock \in DOMAIN message_queues
    /\ Len(message_queues[sock]) < MaxDepth
    /\ message_queues' = [message_queues EXCEPT ![sock] = Append(@, msg)]
    /\ outputs' = outputs \cup {sock}
    /\ last_event' = NoEvent
    /\ UNCHANGED <<services, socket_to_service, inputs, open, now, reg_written>>
    /\ hbUnchanged

CleanupNext ==
    \/ \E sock \in Socks, msg \in {HeartbeatMsg, ServiceConnected("a")} :
          QueuePut(sock, msg) /\ Idle
    \/ CleanupLoop /\ Idle

SpecCleanup == BusInit /\ [][CleanupNext]_vars

\* C33: a cleanup tick leaves of every queue deeper than the high-water mark
\* its newest half (the oldest floor(d/2) envelopes go, the others keep their
\* order), and leaves every other queue as it was
C33_OldestHalfDropped ==
    [][CleanupLoop =>
          \A s \in DOMAIN message_queues :
              LET q == message_queues[s]
              IN message_queues'[s] =
                    IF Len(q) > QueueHighWater
                    THEN SubSeq(q, (Len(q) \div 2) + 1, Len(q))
                    ELSE q]_vars

\* ------------------------------------------------- application traffic
\* Two registered peers sending each other requests through the broker, the
\* broker's writes succeeding.

\* what send(destination, "register", data) of peer n puts on the wire: the
\* action is the name of the destination's operation, and no service_name is
\* at the top level
ServiceRegister(n, d) == Envelope("register", n, d, Nil, "x1", "r1")

RouteFrames ==
    {AppMsg(n, d, "x1", "r1") : n \in Names, d \in Names}
    \cup {ServiceRegister(n, d) : n \in Names, d \in Names}
    \cup {RegTop(n) : n \in Names}

RouteNext ==
    \/ \E sock \in Socks, m \in RouteFrames : HandleClientMessage(sock, m, TRUE) /\ Idle
    \/ \E sock \in Socks : HandleWritable(sock, TRUE) /\ Idle
    \/ Tick /\ Idle

SpecRoute == BusInit /\ [][RouteNext]_vars

\* C34: a request that names a registered peer as its destination is put on
\* the queue of that peer's connection, whether its action is "echo" or, as
\* in send("authsv", "register", data), "register"
C34_RequestsForwarded ==
    [][\A sock \in Socks, n \in Names, d \in Names :
          \A m \in {AppMsg(n, d, "x1", "r1"), ServiceRegister(n, d)} :
              (/\ HandleClientMessage(sock, m, TRUE)
               /\ d \in DOMAIN services
               /\ services[d].socket \in DOMAIN message_queues)
              => LET c == services[d].socket
                 IN /\ c \in DOMAIN message_queues'
                    /\ Len(message_queues'[c]) = Len(message_queues[c]) + 1
                    /\ message_queues'[c][Len(message_queues'[c])].action = m.action
                    /\ message_queues'[c][Len(message_queues'[c])].request_id = m.request_id]_vars

\* ---------------------------------------------------------- outbound drain
\* The event loop draining the queues of two registered connections, a write
\* of a drain failing or not.

\* the iterations of the loop of _send_pending_messages on a queue q: it goes
\* on while sent_count is below max_messages_per_cycle and the queue object
\* it holds is not empty; _send_to_socket returns normally after a failed
\* write, so a failure does not end it
Iterations(q) == IF Len(q) < MaxPerCycle THEN Len(q) ELSE MaxPerCycle

\* BusServer._send_pending_messages on a socket whose write number fail is
\* the first to fail (0: none fails); once a write has failed the socket is
\* closed and every later write fails too, each with _cleanup_socket
SendPendingMessagesFailing(r, sock, fail) ==
    LET q == r.message_queues[sock]
        k == Iterations(q)
    IN IF fail \notin 1 .. k
       THEN SendPendingMessages(r, sock, TRUE)
       ELSE [CleanupSocket(r, sock) EXCEPT
               !.sent = r.sent \o [i \in 1 .. fail - 1 |-> [sock |-> sock, msg |-> q[i]]]]

\* what a drain did: the envelopes it took from the queue, those it wrote,
\* the increments of stats['messages_sent'], and the write that failed
DrainEvent(sock, q, fail) ==
    LET k == Iterations(q)
        failed == fail \in 1 .. k
    IN [kind |-> "drain", sock |-> sock, name |-> Nil, old |-> 0,
        dequeued |-> k,
        written |-> IF failed THEN fail - 1 ELSE k,
        counted |-> k,
        failed |-> IF failed THEN fail ELSE 0]

\* BusServer._main_loop, a writable socket
DrainWritable(sock, fail) ==
    /\ sock \in outputs
    /\ sock \in DOMAIN message_queues
    /\ Commit(SendPendingMessagesFailing(B, sock, fail))
    /\ last_event' = DrainEvent(sock, message_queues[sock], fail)
    /\ UNCHANGED now
    /\ hbUnchanged

DrainNext ==
    \/ \E sock \in Socks, msg \in {HeartbeatMsg, ServiceConnected("a")} :
          QueuePut(sock, msg) /\ Idle
    \/ \E sock \in Socks, fail \in 0 .. MaxPerCycle : DrainWritable(sock, fail) /\ Idle

SpecDrain == BusInit /\ [][DrainNext]_vars

\* C35: a drain takes at most max_messages_per_cycle envelopes from the
\* queue; when one of its writes failed the connection is reaped, the failed
\* write is the last envelope taken, and messages_sent counts the envelopes
\* written only; a socket whose queue is empty is not in the output set
C35_DrainStopsAtFailure ==
    last_event.kind = "drain" =>
        /\ last_event.dequeued <= MaxPerCycle
        /\ last_event.counted = last_event.written
        /\ last_event.failed # 0 =>
              /\ last_event.dequeued = last_event.failed
              /\ last_event.sock \notin open
        /\ (/\ last_event.sock \in DOMAIN message_queues
            /\ message_queues[last_event.sock] = << >>)
           => last_event.sock \notin outputs

\* ------------------------------------------------------ the output set
\* _send_pending_messages step by step: the event loop runs it without the
\* lock, while the heartbeat thread puts envelopes on the queues under it.

\* the loop of _send_pending_messages, the writes succeeding
DrainLoop(sock) ==
    /\ drain.pc = "idle"
    /\ sock \in outputs
    /\ sock \in DOMAIN message_queues
    /\ message_queues' = [message_queues EXCEPT
                             ![sock] = SubSeq(@, Iterations(@) + 1, Len(@))]
    /\ drain' = [pc |-> "test", sock |-> sock]
    /\ last_event' = NoEvent
    /\ UNCHANGED <<services, socket_to_service, inputs, outputs, open, now, reg_written>>
    /\ hbUnchanged
    /\ UNCHANGED <<last_frame, stream, pvars>>

\* `if queue.empty() and sock in self.outputs:`
DrainTest ==
    /\ drain.pc = "test"
    /\ drain' = IF message_queues[drain.sock] = << >> /\ drain.sock \in outputs
                THEN [drain EXCEPT !.pc = "remove"]
                ELSE NoDrain
    /\ UNCHANGED <<bvars, last_frame, stream, pvars>>

\* `self.outputs.remove(sock)`
DrainRemove ==
    /\ drain.pc = "remove"
    /\ outputs' = outputs \ {drain.sock}
    /\ drain' = NoDrain
    /\ last_event' = NoEvent
    /\ UNCHANGED <<services, socket_to_service, message_queues, inputs, open, now,
                   reg_written>>
    /\ hbUnchanged
    /\ UNCHANGED <<last_frame, stream, pvars>>

StrandNext ==
    \/ \E sock \in Socks, msg \in {HeartbeatMsg, ServiceConnected("a")} :
          QueuePut(sock, msg) /\ Idle
    \/ \E sock \in Socks : DrainLoop(sock)
    \/ DrainTest
    \/ DrainRemove

SpecStrand == BusInit /\ [][StrandNext]_vars

\* C36: while the event loop is outside _send_pending_messages (and the
\* heartbeat thread outside its locked block), every open connection with a
\* non-empty queue has its socket in the output set
C36_NoStrandedEnvelope ==
    drain.pc = "idle" =>
        \A s \in open \cap DOMAIN message_queues :
            message_queues[s] # << >> => s \in outputs

\* ---------------------------------------------------- the liveness thread
\* C37: when the heartbeat thread closes the connection a name is bound to,
\* the last_seen of that entry is older than three heartbeat intervals at
\* that moment
C37_ReapsWhatItChecked ==
    [][\A n \in Names :
          (HeartbeatReap(n) /\ n \in DOMAIN services)
          => now - services[n].last_seen > 3 * heartbeat_interval]_vars

\* ------------------------------------------------------ the on_disconnect hook
\* C39: once the reconnect budget is spent, on_disconnect is called once: no
\* second call follows without a further reconnect attempt
C39_OnDisconnectOnce ==
    \A p \in Peers : conn[p].fired <= 1

\* ------------------------------------------------- isolation of the entries
\* the envelopes _process_message hands to _route_message
IsRouted(m) ==
    m.action \notin {"register", "ping", "discover", "broadcast"} /\ m.destination # Nil

\* the names whose entry is bound to the same connection, other than sock, in
\* r and in r2
BoundElsewhere(r, r2, sock) ==
    {n \in DOMAIN r.services \cap DOMAIN r2.services :
        /\ r.services[n].socket # sock
        /\ r2.services[n].socket = r.services[n].socket}

\* C40: in every state, whatever frame a connection sends next, the entry of
\* a name bound to another connection changes only if that name is the
\* destination of the routed envelope, and is the same whatever the frame
\* says its sender is
C40_EntriesIsolated ==
    \A sock \in inputs, m \in InFrames :
        LET r == ProcessMessage(B, sock, m, TRUE, now)
        IN /\ \A n \in BoundElsewhere(B, r, sock) :
                 r.services[n] # services[n] => (IsRouted(m) /\ n = m.destination)
           /\ \A sender \in Names :
                 LET r2 == ProcessMessage(B, sock, [m EXCEPT !.sender = sender], TRUE, now)
                 IN \A n \in BoundElsewhere(B, r, sock) \cap BoundElsewhere(B, r2, sock) :
                        r.services[n] = r2.services[n]

====
